---- MODULE Spec2Model ----
(***************************************************************************)
(* Neuro-evolution of vehicle controllers: the neural network (Brain.ts),  *)
(* the fitness function (FitnessCalculator.ts), the editable track         *)
(* (Track.ts) and the generation life cycle (World.ts).                    *)
(*                                                                         *)
(* Numbers.  JavaScript doubles are modelled on fixed-point grids:         *)
(*   - weights, biases, network inputs and outputs in tenths (20 = 2.0);   *)
(*   - a Math.random() draw in thousandths (0..999 stands for [0,1));      *)
(*   - a fitness value in 1/360 (the common denominator of its terms).     *)
(* The values NaN, Infinity and undefined are kept apart from the numbers. *)
(***************************************************************************)
EXTENDS Integers, Sequences, FiniteSets, TLC

VARIABLES heap, world, track, call, steps, panel

vars == <<heap, world, track, call, steps, panel>>

(***************************************************************************)
(* Bounds of the model.                                                    *)
(***************************************************************************)
\* operations applied to the brains of SpecBrain before it stops
MaxOps == 2
\* sensor rays of a vehicle (9 in the program); the network has two more inputs
SensorCount == 1

(***************************************************************************)
(* NEURAL_NETWORK of constants.ts, at the size of the model.               *)
(***************************************************************************)
INPUT_COUNT == SensorCount + 2
HIDDEN_LAYERS == <<2>>
OUTPUT_COUNT == 3

(***************************************************************************)
(* JavaScript values that are no finite number.                            *)
(***************************************************************************)
Infinity == 1000 * 1000 * 1000
NaN == 0 - 2000000000
undefined == 0 - 2000000001

IsNum(x) == x # NaN /\ x # undefined

Abs(x) == IF x < 0 THEN 0 - x ELSE x
Min(a, b) == IF a < b THEN a ELSE b
Max(a, b) == IF a > b THEN a ELSE b

\* Math.max(-2, Math.min(2, w)) on the grid of tenths
Clamp2(w) == Max(0 - 20, Min(20, w))

(***************************************************************************)
(* Math.random(): an operation draws from a stream, a cyclic sequence of   *)
(* draws in thousandths; the k-th draw (k = 0, 1, ...) is Rand(s, k).      *)
(***************************************************************************)
RandStreams ==
    { <<0>>, <<999>>, <<500, 0>>, <<0, 400, 250>>, <<300, 800, 600>> }

Rand(s, k) == s[(k % Len(s)) + 1]

\* Math.random() * 4 - 2, in tenths
RandInit(m) == ((m * 40) \div 1000) - 20

\* (Math.random() * 2 - 1) * 0.8, in tenths
RandNudge(m) == ((m * 2 - 1000) * 8) \div 1000

\* 10 * sqrt(-2 ln u), rounded, on bands of u
SqrtNeg2Ln10(u) ==
    IF u = 0 THEN Infinity
    ELSE IF u <= 1 THEN 37
    ELSE IF u <= 100 THEN 21
    ELSE IF u <= 250 THEN 17
    ELSE IF u <= 400 THEN 14
    ELSE IF u <= 500 THEN 12
    ELSE IF u <= 750 THEN 8
    ELSE 0

\* 10 * cos(2 pi v), rounded, on bands of v
Cos10(v) ==
    IF v < 50 THEN 10
    ELSE IF v < 175 THEN 8
    ELSE IF v < 325 THEN 0
    ELSE IF v < 450 THEN 0 - 8
    ELSE IF v < 550 THEN 0 - 10
    ELSE IF v < 675 THEN 0 - 8
    ELSE IF v < 825 THEN 0
    ELSE IF v < 950 THEN 8
    ELSE 10

\* Brain.gaussianRandom() * 0.3, in tenths; u = 0 gives +-Infinity
gaussianRandom(u, v) ==
    IF SqrtNeg2Ln10(u) = Infinity
    THEN (IF v < 250 \/ v >= 750 THEN Infinity ELSE 0 - Infinity)
    ELSE (3 * SqrtNeg2Ln10(u) * Cos10(v)) \div 100

(***************************************************************************)
(* Activation functions on the grid: the argument in hundredths (a product *)
(* of two tenths), the result in tenths.                                   *)
(***************************************************************************)
TanhTable ==
    <<0, 1, 2, 3, 4, 5, 5, 6, 7, 7, 8, 8, 8, 9, 9, 9, 9, 9, 9, 10, 10,
      10, 10, 10, 10, 10, 10, 10, 10, 10, 10>>

SigmoidTable ==
    <<0, 1, 1, 1, 1, 1, 1, 1, 1, 1, 1, 1, 1, 2, 2, 2, 2, 2, 2, 2, 3, 3, 3, 3,
      4, 4, 4, 4, 5, 5, 5, 5, 5, 6, 6, 6, 6, 7, 7, 7, 7, 8, 8, 8, 8, 8, 8, 8,
      9, 9, 9, 9, 9, 9, 9, 9, 9, 9, 9, 9, 10>>

\* Math.tanh(sum)
Tanh(sum) ==
    IF ~IsNum(sum) THEN NaN
    ELSE LET a == Abs(sum) \div 10
             t == IF a >= 30 THEN 10 ELSE TanhTable[a + 1]
         IN IF sum < 0 THEN 0 - t ELSE t

\* 1 / (1 + Math.exp(-sum))
Sigmoid(sum) ==
    IF ~IsNum(sum) THEN NaN
    ELSE LET q == sum \div 10
         IN IF q < 0 - 30 THEN 0
            ELSE IF q > 30 THEN 10
            ELSE SigmoidTable[q + 31]

\* a + b and a * b of JavaScript numbers
Add(a, b) == IF IsNum(a) /\ IsNum(b) THEN a + b ELSE NaN
Mul(a, b) == IF IsNum(a) /\ IsNum(b) THEN a * b ELSE NaN

(***************************************************************************)
(* The object heap.  heap.arrs holds the number arrays (a weight row, a    *)
(* bias vector, a level's inputs or outputs), heap.lvls the Level objects  *)
(* (fields that refer to arrays), heap.brns the Brain objects (a sequence  *)
(* of Level references).  A reference is an index; allocation appends.     *)
(* An operation works on a machine M: the heap and the number k of random  *)
(* draws it has consumed so far.                                           *)
(***************************************************************************)
EmptyHeap == [arrs |-> <<>>, lvls |-> <<>>, brns |-> <<>>]

Machine(h) == [arrs |-> h.arrs, lvls |-> h.lvls, brns |-> h.brns, k |-> 0]

HeapOf(M) == [arrs |-> M.arrs, lvls |-> M.lvls, brns |-> M.brns]

Holes(n) == [i \in 1..n |-> undefined] \o <<>>

\* new Level(inputCount, outputCount, isOutputLayer), Level.randomize included
Level_new(M, s, inputCount, outputCount, isOutputLayer) ==
    LET n == Len(M.arrs)
        row(i) == [j \in 1..outputCount |->
                      RandInit(Rand(s, M.k + (i - 1) * outputCount + (j - 1)))] \o <<>>
        biases == [i \in 1..outputCount |->
                      RandInit(Rand(s, M.k + inputCount * outputCount + (i - 1)))] \o <<>>
    IN [M EXCEPT
          !.arrs = @ \o <<Holes(inputCount), Holes(outputCount), biases>>
                     \o [i \in 1..inputCount |-> row(i)],
          !.lvls = Append(@, [inputs |-> n + 1, outputs |-> n + 2, biases |-> n + 3,
                              weights |-> [i \in 1..inputCount |-> n + 3 + i] \o <<>>,
                              isOutputLayer |-> isOutputLayer]),
          !.k = @ + inputCount * outputCount + outputCount]

\* the loop of the Brain constructor from hidden layer i on, and the output layer
RECURSIVE Brain_levels(_, _, _, _, _, _)
Brain_levels(M, s, inputCount, hiddenLayers, outputs, i) ==
    IF i > Len(hiddenLayers)
    THEN Level_new(M, s, inputCount, outputs, "true")
    ELSE Brain_levels(Level_new(M, s, inputCount, hiddenLayers[i], "false"),
                      s, hiddenLayers[i], hiddenLayers, outputs, i + 1)

\* new Brain(inputs, hiddenLayers, outputs); the new brain is Len(brns)
Brain_new(M, s, inputs, hiddenLayers, outputs) ==
    LET l0 == Len(M.lvls)
        M2 == Brain_levels(M, s, inputs, hiddenLayers, outputs, 1)
    IN [M2 EXCEPT !.brns = Append(@, [i \in 1..(Len(M2.lvls) - l0) |-> l0 + i])]

\* the weights and biases of a level and of a brain, as values
LevelWeights(h, l) == [i \in 1..Len(h.lvls[l].weights) |-> h.arrs[h.lvls[l].weights[i]]]
LevelBiases(h, l) == h.arrs[h.lvls[l].biases]
BrainValue(h, b) ==
    [i \in 1..Len(h.brns[b]) |->
        [weights |-> LevelWeights(h, h.brns[b][i]), biases |-> LevelBiases(h, h.brns[b][i])]]

(***************************************************************************)
(* Level.clone and Brain.clone.  Object.create(prototype) gives an object  *)
(* with no own fields; clone then assigns inputs, outputs, biases and      *)
(* weights, each a new array.  isOutputLayer is not assigned.              *)
(***************************************************************************)
\* (mutant) the rows of the original shared with the clone
CopyRows_shared(M, l) == [arrs |-> M.arrs, rows |-> M.lvls[l].weights]

\* this.weights.map(row => [...row]): every row copied into a new array
CopyRows(M, l) ==
    [arrs |-> M.arrs \o [i \in 1..Len(M.lvls[l].weights) |-> M.arrs[M.lvls[l].weights[i]]],
     rows |-> [i \in 1..Len(M.lvls[l].weights) |-> Len(M.arrs) + i] \o <<>>]

\* level.clone(); the clone is Len(lvls)
Level_clone(M, l) ==
    LET L == M.lvls[l]
        n == Len(M.arrs)
        M1 == [M EXCEPT !.arrs = @ \o <<M.arrs[L.inputs], M.arrs[L.outputs], M.arrs[L.biases]>>]
        W == CopyRows(M1, l)
    IN [M1 EXCEPT
          !.arrs = W.arrs,
          !.lvls = Append(@, [inputs |-> n + 1, outputs |-> n + 2, biases |-> n + 3,
                              weights |-> W.rows, isOutputLayer |-> "undefined"])]

RECURSIVE CloneLevels(_, _, _)
CloneLevels(M, ls, i) ==
    IF i > Len(ls) THEN M ELSE CloneLevels(Level_clone(M, ls[i]), ls, i + 1)

\* brain.clone(); the clone is Len(brns)
Brain_clone(M, b) ==
    LET l0 == Len(M.lvls)
        M2 == CloneLevels(M, M.brns[b], 1)
    IN [M2 EXCEPT !.brns = Append(@, [i \in 1..Len(M.brns[b]) |-> l0 + i])]

(***************************************************************************)
(* Level.mutate and Brain.mutate: in place, cell by cell, the weights row  *)
(* by row and then the biases.  A cell is <<array, index>>.                *)
(***************************************************************************)
RECURSIVE RowCells(_, _, _)
RowCells(M, rows, i) ==
    IF i > Len(rows) THEN <<>>
    ELSE [j \in 1..Len(M.arrs[rows[i]]) |-> <<rows[i], j>>] \o RowCells(M, rows, i + 1)

BiasCells(M, l) == [i \in 1..Len(M.arrs[M.lvls[l].biases]) |-> <<M.lvls[l].biases, i>>]

\* (mutant) <= in place of <
MutationHits_orEqual(u, mutationRate) == u <= mutationRate

\* Math.random() < mutationRate
MutationHits(u, mutationRate) == u < mutationRate

\* one cell of Level.mutate: the new value and the number of draws consumed
MutateCell(w, s, k, mutationRate) ==
    IF MutationHits(Rand(s, k), mutationRate)
    THEN LET r == Rand(s, k + 1)
         IN IF r < 400
            THEN [w |-> Clamp2(w + gaussianRandom(Rand(s, k + 2), Rand(s, k + 3))), n |-> 4]
            ELSE IF r < 750
            THEN [w |-> Clamp2(w + RandNudge(Rand(s, k + 2))), n |-> 3]
            ELSE [w |-> RandInit(Rand(s, k + 2)), n |-> 3]
    ELSE [w |-> w, n |-> 1]

RECURSIVE MutateCells(_, _, _, _, _)
MutateCells(M, s, cells, mutationRate, c) ==
    IF c > Len(cells) THEN M
    ELSE LET a == cells[c][1]
             i == cells[c][2]
             m == MutateCell(M.arrs[a][i], s, M.k, mutationRate)
         IN MutateCells([M EXCEPT !.arrs[a][i] = m.w, !.k = @ + m.n],
                        s, cells, mutationRate, c + 1)

Level_mutate(M, s, l, mutationRate) ==
    MutateCells(MutateCells(M, s, RowCells(M, M.lvls[l].weights, 1), mutationRate, 1),
                s, BiasCells(M, l), mutationRate, 1)

RECURSIVE MutateLevels(_, _, _, _, _)
MutateLevels(M, s, ls, mutationRate, i) ==
    IF i > Len(ls) THEN M
    ELSE MutateLevels(Level_mutate(M, s, ls[i], mutationRate), s, ls, mutationRate, i + 1)

Brain_mutate(M, s, b, mutationRate) == MutateLevels(M, s, M.brns[b], mutationRate, 1)

(***************************************************************************)
(* Level.crossover and Brain.crossover.  The child is a clone of parent1;  *)
(* cells are then overwritten by the cells of parent2 at the same place.   *)
(***************************************************************************)
\* (mutant) the column index dropped: parent2.weights[i][0]
Parent2Weight_firstColumn(M, parent2, i, j) ==
    IF i <= Len(M.lvls[parent2].weights) /\ 1 <= Len(M.arrs[M.lvls[parent2].weights[i]])
    THEN M.arrs[M.lvls[parent2].weights[i]][1] ELSE undefined

\* parent2.weights[i][j] and parent2.biases[i] (i, j from 1)
Parent2Weight(M, parent2, i, j) ==
    IF i <= Len(M.lvls[parent2].weights) /\ j <= Len(M.arrs[M.lvls[parent2].weights[i]])
    THEN M.arrs[M.lvls[parent2].weights[i]][j] ELSE undefined

Parent2Bias(M, parent2, i) ==
    IF i <= Len(M.arrs[M.lvls[parent2].biases])
    THEN M.arrs[M.lvls[parent2].biases][i] ELSE undefined

\* single-point: rows and biases at or after crossoverPoint come from parent2
SinglePoint(M, child, parent2, crossoverPoint) ==
    LET C == M.lvls[child]
        newRow(i) == IF i - 1 >= crossoverPoint
                     THEN [j \in 1..Len(M.arrs[C.weights[i]]) |-> Parent2Weight(M, parent2, i, j)] \o <<>>
                     ELSE M.arrs[C.weights[i]]
        newBiases == [i \in 1..Len(M.arrs[C.biases]) |->
                         IF i - 1 >= crossoverPoint THEN Parent2Bias(M, parent2, i)
                         ELSE M.arrs[C.biases][i]] \o <<>>
    IN [M EXCEPT !.arrs = [a \in 1..Len(M.arrs) |->
            IF a = C.biases THEN newBiases
            ELSE IF \E i \in 1..Len(C.weights) : C.weights[i] = a
            THEN newRow(CHOOSE i \in 1..Len(C.weights) : C.weights[i] = a)
            ELSE M.arrs[a]] \o <<>>]

\* uniform: every cell comes from parent2 when its own draw is below 0.5
RECURSIVE UniformRows(_, _, _, _, _, _)
UniformRows(M, s, child, parent2, i, j) ==
    LET C == M.lvls[child] IN
    IF i > Len(C.weights) THEN M
    ELSE IF j > Len(M.arrs[C.weights[i]]) THEN UniformRows(M, s, child, parent2, i + 1, 1)
    ELSE UniformRows(
            [M EXCEPT !.arrs[C.weights[i]][j] =
                          IF Rand(s, M.k) < 500 THEN Parent2Weight(M, parent2, i, j) ELSE @,
                      !.k = @ + 1],
            s, child, parent2, i, j + 1)

RECURSIVE UniformBiases(_, _, _, _, _)
UniformBiases(M, s, child, parent2, i) ==
    LET C == M.lvls[child] IN
    IF i > Len(M.arrs[C.biases]) THEN M
    ELSE UniformBiases(
            [M EXCEPT !.arrs[C.biases][i] =
                          IF Rand(s, M.k) < 500 THEN Parent2Bias(M, parent2, i) ELSE @,
                      !.k = @ + 1],
            s, child, parent2, i + 1)

\* Level.crossover(parent1, parent2); the child is Len(lvls)
Level_crossover(M, s, parent1, parent2) ==
    LET M1 == Level_clone(M, parent1)
        child == Len(M1.lvls)
        rows == Len(M1.lvls[child].weights)
    IN IF Rand(s, M1.k) < 500
       THEN SinglePoint([M1 EXCEPT !.k = @ + 2], child, parent2,
                        (Rand(s, M1.k + 1) * rows) \div 1000)
       ELSE UniformBiases(UniformRows([M1 EXCEPT !.k = @ + 1], s, child, parent2, 1, 1),
                          s, child, parent2, 1)

RECURSIVE CrossLevels(_, _, _, _, _, _)
CrossLevels(M, s, child, parent1, parent2, i) ==
    IF i > Len(M.brns[child]) THEN M
    ELSE LET M1 == Level_crossover(M, s, M.brns[parent1][i], M.brns[parent2][i])
         IN CrossLevels([M1 EXCEPT !.brns[child][i] = Len(M1.lvls)],
                        s, child, parent1, parent2, i + 1)

\* Brain.crossover(parent1, parent2); the child is Len(brns)
Brain_crossover(M, s, parent1, parent2) ==
    LET M1 == Brain_clone(M, parent1)
    IN CrossLevels(M1, s, Len(M1.brns), parent1, parent2, 1)

(***************************************************************************)
(* Level.feedForward and Brain.feedForward.  givenInputs is a sequence of  *)
(* numbers; a level writes its inputs and outputs arrays and returns its   *)
(* outputs array.                                                          *)
(***************************************************************************)
At(seq, i) == IF i >= 1 /\ i <= Len(seq) THEN seq[i] ELSE undefined

RECURSIVE WeightedSum(_, _, _, _, _)
WeightedSum(M, l, inputs, i, j) ==
    IF j > Len(inputs) THEN 0
    ELSE Add(Mul(inputs[j], At(M.arrs[At(M.lvls[l].weights, j)], i)),
             WeightedSum(M, l, inputs, i, j + 1))

\* (mutant) tanh on every layer
Activation_allTanh(isOutputLayer, sum) == Tanh(sum)

\* the activation of one output: tanh on the output layer, else the sigmoid
Activation(isOutputLayer, sum) ==
    IF isOutputLayer = "true" THEN Tanh(sum) ELSE Sigmoid(sum)

Level_feedForward(M, givenInputs, l) ==
    LET L == M.lvls[l]
        inputs == [i \in 1..Len(M.arrs[L.inputs]) |-> At(givenInputs, i)] \o <<>>
        sum(i) == Add(WeightedSum(M, l, inputs, i, 1), Mul(10, At(M.arrs[L.biases], i)))
        outputs == [i \in 1..Len(M.arrs[L.outputs]) |-> Activation(L.isOutputLayer, sum(i))] \o <<>>
    IN [M EXCEPT !.arrs[L.inputs] = inputs, !.arrs[L.outputs] = outputs]

RECURSIVE FeedLevels(_, _, _, _)
FeedLevels(M, givenInputs, ls, i) ==
    IF i > Len(ls) THEN M
    ELSE LET M1 == Level_feedForward(M, givenInputs, ls[i])
         IN FeedLevels(M1, M1.arrs[M1.lvls[ls[i]].outputs], ls, i + 1)

\* Brain.feedForward(givenInputs, brain): the machine after the call
Brain_feedForward(M, givenInputs, b) == FeedLevels(M, givenInputs, M.brns[b], 1)

\* the array Brain.feedForward returns: the last level's outputs
FeedForwardResult(M, b) == M.arrs[M.lvls[M.brns[b][Len(M.brns[b])]].outputs]

(***************************************************************************)
(* SpecBrain: the operations of Brain.ts applied in any order to a few     *)
(* brains on one heap.  call records the operation that led to the state.  *)
(***************************************************************************)
Idle == <<>>

MutationRates == {0, 100, 1000}

\* input vectors of the first layer's width, in tenths
InputVectors ==
    { [i \in 1..INPUT_COUNT |-> 0], [i \in 1..INPUT_COUNT |-> 10],
      [i \in 1..INPUT_COUNT |-> IF i = INPUT_COUNT THEN 0 - 10 ELSE 5 * (i - 1)] }

Brains == 1..Len(heap.brns)

InitBrain ==
    /\ panel = Idle
    /\ \E s \in RandStreams :
          heap = HeapOf(Brain_new(Machine(EmptyHeap), s, INPUT_COUNT, HIDDEN_LAYERS, OUTPUT_COUNT))
    /\ call = [op |-> "new", brain |-> 1]
    /\ steps = 0
    /\ world = Idle
    /\ track = Idle

BrainNew ==
    /\ steps < MaxOps
    /\ \E s \in RandStreams :
          heap' = HeapOf(Brain_new(Machine(heap), s, INPUT_COUNT, HIDDEN_LAYERS, OUTPUT_COUNT))
    /\ call' = [op |-> "new", brain |-> Len(heap.brns) + 1]
    /\ steps' = steps + 1
    /\ UNCHANGED <<world, track>>

BrainClone ==
    /\ steps < MaxOps
    /\ \E b \in Brains :
          /\ heap' = HeapOf(Brain_clone(Machine(heap), b))
          /\ call' = [op |-> "clone", brain |-> b, result |-> Len(heap.brns) + 1]
    /\ steps' = steps + 1
    /\ UNCHANGED <<world, track>>

BrainMutate ==
    /\ steps < MaxOps
    /\ \E b \in Brains, mutationRate \in MutationRates, s \in RandStreams :
          /\ heap' = HeapOf(Brain_mutate(Machine(heap), s, b, mutationRate))
          /\ call' = [op |-> "mutate", brain |-> b, mutationRate |-> mutationRate,
                      before |-> BrainValue(heap, b)]
    /\ steps' = steps + 1
    /\ UNCHANGED <<world, track>>

BrainCrossover ==
    /\ steps < MaxOps
    /\ \E parent1 \in Brains, parent2 \in Brains, s \in RandStreams :
          /\ heap' = HeapOf(Brain_crossover(Machine(heap), s, parent1, parent2))
          /\ call' = [op |-> "crossover", parent1 |-> parent1, parent2 |-> parent2,
                      before |-> BrainValue(heap, parent1),
                      result |-> Len(heap.brns) + 1]
    /\ steps' = steps + 1
    /\ UNCHANGED <<world, track>>

BrainFeedForward ==
    /\ steps < MaxOps
    /\ \E b \in Brains, x \in InputVectors :
          LET M == Brain_feedForward(Machine(heap), x, b)
          IN /\ heap' = HeapOf(M)
             /\ call' = [op |-> "feedForward", brain |-> b, givenInputs |-> x,
                         result |-> FeedForwardResult(M, b)]
    /\ steps' = steps + 1
    /\ UNCHANGED <<world, track>>

\* the brain-controlled branch of Vehicle.update: outputs are left, right and
\* forward; applyImpulse along the heading, scaled by forward, if forward >
\* 0.5, and applyTorqueImpulse of turn = right - left (times maxTorque * 0.016)
BrainControls(outputs) ==
    [impulse |-> outputs[3] > 5, forward |-> outputs[3],
     turn |-> Add(outputs[2], Mul(0 - 1, outputs[1]))]

\* Vehicle.update of an alive vehicle with useBrain, from the feed forward on
VehicleSteer ==
    /\ steps < MaxOps
    /\ \E b \in Brains, x \in InputVectors :
          LET M == Brain_feedForward(Machine(heap), x, b)
          IN /\ heap' = HeapOf(M)
             /\ call' = [op |-> "steer", brain |-> b, givenInputs |-> x,
                         result |-> FeedForwardResult(M, b),
                         controls |-> BrainControls(FeedForwardResult(M, b))]
    /\ steps' = steps + 1
    /\ UNCHANGED <<world, track>>

NextBrain ==
    \/ BrainNew /\ UNCHANGED panel
    \/ BrainClone /\ UNCHANGED panel
    \/ BrainMutate /\ UNCHANGED panel
    \/ BrainCrossover /\ UNCHANGED panel
    \/ BrainFeedForward /\ UNCHANGED panel
    \/ VehicleSteer /\ UNCHANGED panel

SpecBrain == InitBrain /\ [][NextBrain]_vars

(***************************************************************************)
(* Claims on Brain.ts, checked under SpecBrain.                            *)
(***************************************************************************)
\* every level of brain b was made by Level.clone (it has no isOutputLayer)
MadeByClone(b) == \A i \in 1..Len(heap.brns[b]) : heap.lvls[heap.brns[b][i]].isOutputLayer = "undefined"

LastLevel(b) == heap.brns[b][Len(heap.brns[b])]

\* C3: b.clone() has the weights and biases of b in every layer, and no
\* operation changes a weight or bias of any brain but the one Brain.mutate is
\* called on: clone, crossover and feedForward change none, mutate changes
\* only its argument (so never the brain a clone or an offspring came from).
C3_CloneIndependent ==
    [][ /\ (call'.op = "clone"
              => BrainValue(heap', call'.result) = BrainValue(heap, call'.brain))
        /\ \A b \in Brains :
              \/ call'.op = "mutate" /\ call'.brain = b
              \/ BrainValue(heap', b) = BrainValue(heap, b) ]_vars

\* a brain made by clone, equal to another brain b before, was mutated away from b
C3_Witness ==
    /\ call.op = "mutate"
    /\ MadeByClone(call.brain)
    /\ \E b \in Brains :
          /\ b # call.brain
          /\ BrainValue(heap, b) = call.before
          /\ BrainValue(heap, call.brain) # call.before

\* C4: crossover(A, A) returns a brain with A's weights and biases, for every
\* stream of random draws, and leaves A as it was.
C4_SelfCrossover ==
    (call.op = "crossover" /\ call.parent1 = call.parent2)
       => /\ BrainValue(heap, call.result) = call.before
          /\ BrainValue(heap, call.parent1) = call.before

\* A crossed with itself, A having a weight row of unequal cells
C4_Witness ==
    /\ call.op = "crossover"
    /\ call.parent1 = call.parent2
    /\ call.result # call.parent1
    /\ \E i \in 1..Len(call.before) : \E r \in 1..Len(call.before[i].weights) :
          \E j \in 1..Len(call.before[i].weights[r]) :
             call.before[i].weights[r][j] # call.before[i].weights[r][1]

\* C5: mutate(b, 0) leaves every weight and bias of b as it was, whatever
\* the random draws.
C5_MutateZero ==
    (call.op = "mutate" /\ call.mutationRate = 0)
       => BrainValue(heap, call.brain) = call.before

\* mutate was called with rate 0 and a stream whose draws are all 0
C5_Witness == call.op = "mutate" /\ call.mutationRate = 0

\* C6: feedForward with an input of the first layer's width returns a vector
\* of the last layer's output width with every element in [-1, 1], and
\* leaves every hidden layer's outputs in [0, 1].
C6_FeedForwardRange ==
    call.op = "feedForward"
       => /\ Len(call.result) = Len(LevelBiases(heap, LastLevel(call.brain)))
          /\ \A i \in 1..Len(call.result) :
                IsNum(call.result[i]) /\ call.result[i] >= 0 - 10 /\ call.result[i] <= 10
          /\ \A n \in 1..(Len(heap.brns[call.brain]) - 1) :
                LET out == heap.arrs[heap.lvls[heap.brns[call.brain][n]].outputs]
                IN \A i \in 1..Len(out) : IsNum(out[i]) /\ out[i] >= 0 /\ out[i] <= 10

\* feedForward ran on a constructed brain and returned a negative output
C6_Witness ==
    /\ call.op = "feedForward"
    /\ Len(call.givenInputs) = Len(heap.lvls[heap.brns[call.brain][1]].weights)
    /\ \E i \in 1..Len(call.result) : call.result[i] < 0

(***************************************************************************)
(* FitnessCalculator.calculate.  A vehicle's telemetry, on the grids:      *)
(*   trackProgress          waypoints (an integer)                         *)
(*   framesWithoutProgress  frames, or NaN, or undefined                   *)
(*   centerDeviation        world units                                    *)
(*   distanceTraveled       world units                                    *)
(*   timeAlive              sixtieths of a second (one per tick)           *)
(*   smoothness             tenths                                         *)
(* The fitness is in 1/360: every term but the progress term is a multiple *)
(* of 1/360 up to the rounding of one division.                            *)
(***************************************************************************)
FITNESS_WEIGHTS_trackProgress == 100
FITNESS_WEIGHTS_centerDeviation == 50
FITNESS_WEIGHTS_speed == 10
FITNESS_WEIGHTS_smoothness == 20
stagnationThreshold == 180

\* the integer square root, by bisection on lo <= root < hi
RECURSIVE ISqrtIn(_, _, _)
ISqrtIn(n, lo, hi) ==
    IF hi - lo <= 1 THEN lo
    ELSE LET mid == (lo + hi) \div 2
         IN IF mid * mid <= n THEN ISqrtIn(n, mid, hi) ELSE ISqrtIn(n, lo, mid)

ISqrt(n) == ISqrtIn(n, 0, 46341)

\* Math.pow(x, 1.5) in tenths, rounded down (x a small natural number)
Pow15(x) == ISqrt(x * x * x * 100)

\* (mutant) no penalty at all
StagnationPenalty_none(framesWithoutProgress) == 0

\* the stagnation penalty, in 1/360: ((frames - 180) / 60)^2 * 500
StagnationPenalty(framesWithoutProgress) ==
    IF IsNum(framesWithoutProgress) /\ framesWithoutProgress > stagnationThreshold
    THEN 50 * (framesWithoutProgress - stagnationThreshold)
            * (framesWithoutProgress - stagnationThreshold)
    ELSE 0

\* (mutant) the total returned as it is
ClampFitness_none(totalFitness) == totalFitness

\* Math.max(0, totalFitness)
ClampFitness(totalFitness) == Max(0, totalFitness)

\* FitnessCalculator.calculate(vehicle, track)
calculate(vehicle) ==
    LET progressScore == Pow15(vehicle.trackProgress) * 36 * FITNESS_WEIGHTS_trackProgress
        stagnationPenalty == StagnationPenalty(vehicle.framesWithoutProgress)
        \* Math.max(1, timeAlive), in sixtieths
        alive == Max(60, vehicle.timeAlive)
        \* avgDeviation * 2, in 1/360
        avgDeviation2 == (vehicle.centerDeviation * 60 * 360 * 2) \div alive
        centerScore == Max(0, FITNESS_WEIGHTS_centerDeviation * 360 - avgDeviation2)
        speedScore == ((vehicle.distanceTraveled * 60 * 360) \div alive) * FITNESS_WEIGHTS_speed
        smoothScore == vehicle.smoothness * 36 * FITNESS_WEIGHTS_smoothness
        survivalScore == Min(vehicle.timeAlive * 3, 10 * 360)
    IN ClampFitness(progressScore + centerScore + speedScore + smoothScore
                       + survivalScore - stagnationPenalty)

(***************************************************************************)
(* SpecFitness: calculate applied to two vehicles whose telemetry differs  *)
(* in framesWithoutProgress alone: the second has 0.                       *)
(***************************************************************************)
Telemetries ==
    [trackProgress : {0, 1, 4, 30},
     framesWithoutProgress : {0, 179, 180, 181, 240, 600, NaN, undefined},
     centerDeviation : {0, 10, 1000},
     distanceTraveled : {0, 50},
     timeAlive : {0, 30, 60, 600, 3600},
     smoothness : {0, 5}]

InitFitness ==
    /\ panel = Idle
    /\ \E v \in Telemetries :
          call = [op |-> "calculate",
                  vehicles |-> <<v, [v EXCEPT !.framesWithoutProgress = 0]>>,
                  fitness |-> <<>>]
    /\ steps = 0
    /\ heap = EmptyHeap
    /\ world = Idle
    /\ track = Idle

\* calculate on the next of the two vehicles
FitnessCalculate ==
    /\ call.op = "calculate"
    /\ Len(call.fitness) < Len(call.vehicles)
    /\ call' = [call EXCEPT !.fitness = Append(@, calculate(call.vehicles[Len(call.fitness) + 1]))]
    /\ steps' = steps + 1
    /\ UNCHANGED <<heap, world, track>>

NextFitness == FitnessCalculate /\ UNCHANGED panel

SpecFitness == InitFitness /\ [][NextFitness]_vars

\* C8: calculate never returns a negative value.
C8_FitnessNonNegative ==
    call.op = "calculate" => \A i \in 1..Len(call.fitness) : call.fitness[i] >= 0

\* calculate returned 0 for a vehicle with progress whose penalty exceeds its score
C8_Witness ==
    /\ call.op = "calculate"
    /\ Len(call.fitness) >= 1
    /\ call.fitness[1] = 0
    /\ call.vehicles[1].trackProgress > 0
    /\ call.vehicles[1].framesWithoutProgress = 600

\* C9 as stated: with framesWithoutProgress >= 180 the fitness is strictly
\* lower than that of the same vehicle with framesWithoutProgress = 0.
C9_Original ==
    (/\ call.op = "calculate"
     /\ Len(call.fitness) = 2
     /\ IsNum(call.vehicles[1].framesWithoutProgress)
     /\ call.vehicles[1].framesWithoutProgress >= 180)
       => call.fitness[1] < call.fitness[2]

\* C9 amended: with framesWithoutProgress > 180 the fitness is never higher
\* than that of the same vehicle with framesWithoutProgress = 0, and strictly
\* lower whenever the latter is positive.
C9_StagnationLowers ==
    (/\ call.op = "calculate"
     /\ Len(call.fitness) = 2
     /\ IsNum(call.vehicles[1].framesWithoutProgress)
     /\ call.vehicles[1].framesWithoutProgress > 180)
       => /\ call.fitness[1] <= call.fitness[2]
          /\ call.fitness[2] > 0 => call.fitness[1] < call.fitness[2]

\* both fitness values computed, the stagnant one positive and below the other
C9_Witness ==
    /\ call.op = "calculate"
    /\ Len(call.fitness) = 2
    /\ call.vehicles[1].framesWithoutProgress = 181
    /\ call.fitness[1] > 0
    /\ call.fitness[1] < call.fitness[2]

(***************************************************************************)
(* Vehicle: the fields the fitness tracking reads and writes.  The class   *)
(* declares no framesWithoutProgress, so a new vehicle has none.  brain is *)
(* a reference into heap.brns.  angular velocities are in tenths.          *)
(***************************************************************************)
Vehicle_new(brain, id) ==
    [id |-> id, brain |-> brain, isAlive |-> TRUE,
     distanceTraveled |-> 0, trackProgress |-> 0, centerDeviation |-> 0,
     timeAlive |-> 0, smoothness |-> 0, lapsCompleted |-> 0,
     previousAngularVelocity |-> 0, framesWithoutProgress |-> undefined,
     sensorCount |-> SensorCount]

\* x++ on a field: undefined and NaN give NaN
Increment(x) == IF IsNum(x) THEN x + 1 ELSE NaN

\* the lap test: trackProgress > length * 0.9 && nearestIndex < length * 0.1
LapCompleted(trackProgress, nearestIndex, length) ==
    trackProgress * 10 > length * 9 /\ nearestIndex * 10 < length

\* (mutant) the progress of the current position, whatever was reached before
NewTrackProgress_current(trackProgress, currentProgress) == currentProgress

\* Math.max(vehicle.trackProgress, currentProgress)
NewTrackProgress(trackProgress, currentProgress) == Max(trackProgress, currentProgress)

\* FitnessCalculator.updateTrackProgress(vehicle, track) for a body whose
\* nearest path point is nearestIndex at distance minDist and whose angular
\* velocity is angvel; length is track.path.length
updateTrackProgress(vehicle, length, nearestIndex, minDist, angvel) ==
    IF length = 0 THEN vehicle
    ELSE LET laps == IF LapCompleted(vehicle.trackProgress, nearestIndex, length)
                     THEN vehicle.lapsCompleted + 1 ELSE vehicle.lapsCompleted
             currentProgress == nearestIndex + laps * length
             previousProgress == vehicle.trackProgress
             progress == NewTrackProgress(vehicle.trackProgress, currentProgress)
             angVel == Abs(angvel)
             angVelChange == Abs(angVel - vehicle.previousAngularVelocity)
         IN [vehicle EXCEPT
               !.lapsCompleted = laps,
               !.trackProgress = progress,
               !.framesWithoutProgress = IF progress <= previousProgress
                                         THEN Increment(@) ELSE 0,
               !.centerDeviation = @ + minDist,
               !.timeAlive = @ + 1,
               !.smoothness = @ + Max(0, 10 - angVelChange),
               !.previousAngularVelocity = angVel]

(***************************************************************************)
(* SpecProgress: updateTrackProgress called frame after frame on one       *)
(* vehicle of one generation, the body at any waypoint in any order.       *)
(***************************************************************************)
MaxFrames == 4

\* track.path.length: eleven spline samples for each of 3 or 4 control points
PathLengths == {33, 44}

\* where the physics step may have put the body: the waypoint nearest to it
NearestIndices(length) == {0, 1, length \div 2, length - 1}

\* the distance to that waypoint and the angular velocity (tenths)
BodyReadings == { [minDist |-> 0, angvel |-> 0], [minDist |-> 2, angvel |-> 0 - 15] }

InitProgress ==
    /\ panel = Idle
    /\ \E length \in PathLengths :
          call = [op |-> "new Vehicle", vehicle |-> Vehicle_new(0, 0), length |-> length,
                  nearestIndex |-> 0]
    /\ steps = 0
    /\ heap = EmptyHeap
    /\ world = Idle
    /\ track = Idle

UpdateTrackProgress ==
    /\ call.op \in {"new Vehicle", "updateTrackProgress"}
    /\ steps < MaxFrames
    /\ \E nearestIndex \in NearestIndices(call.length), r \in BodyReadings :
          call' = [call EXCEPT
                     !.op = "updateTrackProgress",
                     !.nearestIndex = nearestIndex,
                     !.vehicle = updateTrackProgress(@, call.length, nearestIndex,
                                                     r.minDist, r.angvel)]
    /\ steps' = steps + 1
    /\ UNCHANGED <<heap, world, track>>

NextProgress == UpdateTrackProgress /\ UNCHANGED panel

SpecProgress == InitProgress /\ [][NextProgress]_vars

\* C7: no call of updateTrackProgress lowers the vehicle's trackProgress,
\* wherever the body is: behind the furthest waypoint reached, or far from it.
C7_ProgressMonotone ==
    [][call'.op = "updateTrackProgress"
          => call'.vehicle.trackProgress >= call.vehicle.trackProgress]_vars

\* the body is behind the furthest point it reached, a lap completed
C7_Witness ==
    /\ call.op = "updateTrackProgress"
    /\ call.vehicle.lapsCompleted >= 1
    /\ call.nearestIndex + call.vehicle.lapsCompleted * call.length
          < call.vehicle.trackProgress

(***************************************************************************)
(* Track (the editable track).  Control points and the mouse are on the    *)
(* grid of whole world units.  The points of path, innerLoop and outerLoop *)
(* are in 1/2000 of a world unit: the spline samples are multiples of it.  *)
(* Indices are those of the code: from 0, and -1 for none.                 *)
(***************************************************************************)
Point(x, y) == [x |-> x, y |-> y]

Scale == 2 * 1000

\* the built-in track, here a square of four points
trackData == <<Point(0, 0), Point(8, 0), Point(8, 8), Point(0, 8)>>

captureRadius == 3
resolution == 10

\* t = 0, then t += 1 / resolution while t < 1: ten additions of 0.1 give
\* 0.9999999999999999, so the body runs for t = 0/10 .. 10/10
SplineSteps == resolution + 1

\* points[(i + d + n) % n] for the 0-based i
Cyclic(points, i) == points[(i % Len(points)) + 1]

\* one Catmull-Rom sample: 0.5 * (p0 q1 + p1 q2 + p2 q3 + p3 q4) at t = k/10
Sample(p0, p1, p2, p3, k) ==
    LET q1 == 0 - k * k * k + 20 * k * k - 100 * k
        q2 == 3 * k * k * k - 50 * k * k + 2000
        q3 == 0 - 3 * k * k * k + 40 * k * k + 100 * k
        q4 == k * k * k - 10 * k * k
    IN Point(p0.x * q1 + p1.x * q2 + p2.x * q3 + p3.x * q4,
             p0.y * q1 + p1.y * q2 + p2.y * q3 + p3.y * q4)

\* Track.generateSpline(points)
generateSpline(points) ==
    LET n == Len(points) IN
    IF n < 3 THEN [i \in 1..n |-> Point(points[i].x * Scale, points[i].y * Scale)] \o <<>>
    ELSE [m \in 1..(n * SplineSteps) |->
             LET i == (m - 1) \div SplineSteps
                 k == (m - 1) % SplineSteps
             IN Sample(Cyclic(points, i - 1 + n), Cyclic(points, i),
                       Cyclic(points, i + 1), Cyclic(points, i + 2), k)] \o <<>>

\* normal * halfWidth at path[i]: the normal is (-dy, dx) / len of the
\* centered difference; NaN where the two neighbours coincide (len = 0)
NormalTimesHalfWidth(path, i, halfWidth) ==
    LET p0 == Cyclic(path, i - 1 + Len(path))
        p2 == Cyclic(path, i + 1)
        dx == p2.x - p0.x
        dy == p2.y - p0.y
        len == ISqrt(dx * dx + dy * dy)
    IN IF len = 0 THEN Point(NaN, NaN)
       ELSE Point(((0 - dy) * halfWidth) \div len, (dx * halfWidth) \div len)

\* p1 + sign * offset
LoopPoint(p1, offset, sign) ==
    IF offset.x = NaN THEN offset
    ELSE Point(p1.x + sign * offset.x, p1.y + sign * offset.y)

\* Track.rebuildFunction(): path, startPos, the two loops and the wall body
rebuildFunction(t) ==
    LET path == generateSpline(t.controlPoints)
        halfWidth == (t.trackWidth * Scale) \div 2
        offsets == [m \in 1..Len(path) |-> NormalTimesHalfWidth(path, m - 1, halfWidth)] \o <<>>
        innerLoop == [m \in 1..Len(path) |-> LoopPoint(path[m], offsets[m], 0 - 1)] \o <<>>
        outerLoop == [m \in 1..Len(path) |-> LoopPoint(path[m], offsets[m], 1)] \o <<>>
    IN [t EXCEPT !.path = path,
                 !.startPos = IF Len(path) > 0 THEN path[1] ELSE @,
                 !.innerLoop = innerLoop,
                 !.outerLoop = outerLoop,
                 !.walls = IF Len(innerLoop) < 3 THEN 0 ELSE 1]

\* localStorage's 'trackData' item: absent, or the saved control points
NoItem == [present |-> FALSE, points |-> <<>>]

\* Track.save()
save(t) == [t EXCEPT !.storage = [present |-> TRUE, points |-> t.controlPoints]]

\* a write to the controlPoints array: createDefaultTrack makes controlPoints
\* the trackData array itself (shared), and then the write is to both
WriteControlPoints(t, points) ==
    [t EXCEPT !.controlPoints = points, !.trackData = IF t.shared THEN points ELSE @]

\* Track.createDefaultTrack()
createDefaultTrack(t) ==
    rebuildFunction([t EXCEPT !.controlPoints = t.trackData, !.shared = TRUE])

\* new Track(world), Track.load() included
Track_new(storage) ==
    LET t == [trackWidth |-> 30, path |-> <<>>, startPos |-> Point(0, 0),
              innerLoop |-> <<>>, outerLoop |-> <<>>, walls |-> 0,
              controlPoints |-> IF storage.present THEN storage.points ELSE <<>>,
              shared |-> FALSE, trackData |-> trackData,
              isEditing |-> FALSE, selectedPointIndex |-> 0 - 1,
              hoveredPointIndex |-> 0 - 1, storage |-> storage]
    IN IF Len(t.controlPoints) = 0 THEN createDefaultTrack(t) ELSE rebuildFunction(t)

DistSq(p, q) == (p.x - q.x) * (p.x - q.x) + (p.y - q.y) * (p.y - q.y)

\* the hover loop from point i on: the nearest point closer than bestDist
RECURSIVE Hover(_, _, _, _, _)
Hover(points, worldMouse, i, bestDistSq, hovered) ==
    IF i >= Len(points) THEN hovered
    ELSE IF DistSq(points[i + 1], worldMouse) < bestDistSq
    THEN Hover(points, worldMouse, i + 1, DistSq(points[i + 1], worldMouse), i)
    ELSE Hover(points, worldMouse, i + 1, bestDistSq, hovered)

\* the squared distance of pos to the segment p1 p2, as a fraction
SegmentDistSq(pos, p1, p2) ==
    LET l2 == DistSq(p1, p2)
        dot == (pos.x - p1.x) * (p2.x - p1.x) + (pos.y - p1.y) * (p2.y - p1.y)
    IN IF l2 = 0 \/ dot <= 0 THEN [num |-> DistSq(pos, p1), den |-> 1]
       ELSE IF dot >= l2 THEN [num |-> DistSq(pos, p2), den |-> 1]
       ELSE [num |-> DistSq(pos, p1) * l2 - dot * dot, den |-> l2]

\* distSq < bestDist, bestDist being Number.MAX_VALUE at first
LessDist(a, b) == IF b.num = Infinity THEN TRUE ELSE a.num * b.den < b.num * a.den

\* the nearest-segment loop of insertPointAt from segment i on
RECURSIVE NearestSegment(_, _, _, _, _)
NearestSegment(points, pos, i, bestDist, bestIdx) ==
    IF i >= Len(points) THEN bestIdx
    ELSE LET d == SegmentDistSq(pos, points[i + 1], Cyclic(points, i + 1))
         IN IF LessDist(d, bestDist)
            THEN NearestSegment(points, pos, i + 1, d, i)
            ELSE NearestSegment(points, pos, i + 1, bestDist, bestIdx)

\* Track.insertPointAt(pos)
insertPointAt(t, pos) ==
    IF Len(t.controlPoints) < 2
    THEN save(rebuildFunction(WriteControlPoints(t, Append(t.controlPoints, pos))))
    ELSE LET bestIdx == NearestSegment(t.controlPoints, pos, 0,
                                       [num |-> Infinity, den |-> 1], 0 - 1)
             n == Len(t.controlPoints)
             points == SubSeq(t.controlPoints, 1, bestIdx + 1) \o <<pos>>
                          \o SubSeq(t.controlPoints, bestIdx + 2, n)
         IN IF bestIdx # 0 - 1
            THEN save(rebuildFunction(
                    [WriteControlPoints(t, points) EXCEPT !.selectedPointIndex = bestIdx + 1]))
            ELSE t

\* (mutant) a delete that leaves two points is let through
DeleteAllowed_atThree(selectedPointIndex, length) ==
    selectedPointIndex # 0 - 1 /\ length >= 3

\* this.selectedPointIndex !== -1 && this.controlPoints.length > 3
DeleteAllowed(selectedPointIndex, length) ==
    selectedPointIndex # 0 - 1 /\ length > 3

\* controlPoints.splice(index, 1)
Splice1(points, index) ==
    IF index >= Len(points) THEN points
    ELSE SubSeq(points, 1, index) \o SubSeq(points, index + 2, Len(points))

\* Track.update: the hover check and the selection on a click
Selected(t, input) ==
    LET hovered == Hover(t.controlPoints, input.worldMouse, 0,
                         captureRadius * captureRadius, 0 - 1)
    IN [t EXCEPT !.hoveredPointIndex = hovered,
                 !.selectedPointIndex =
                     IF input.mouseClicked
                     THEN (IF hovered # 0 - 1 THEN hovered ELSE 0 - 1)
                     ELSE @]

\* controlPoints[selectedPointIndex] is undefined: the assignment of .x throws
DragThrows(t, input) ==
    /\ input.isMouseDown
    /\ t.selectedPointIndex # 0 - 1
    /\ t.selectedPointIndex >= Len(t.controlPoints)

\* Track.update: the selected point follows the mouse while the button is down
Dragged(t, input) ==
    IF input.isMouseDown /\ t.selectedPointIndex # 0 - 1
    THEN save(rebuildFunction(WriteControlPoints(t,
            [t.controlPoints EXCEPT ![t.selectedPointIndex + 1] = input.worldMouse])))
    ELSE t

\* Track.update: 'D' deletes the selected point
Deleted(t, input) ==
    IF input.KeyD /\ DeleteAllowed(t.selectedPointIndex, Len(t.controlPoints))
    THEN save(rebuildFunction(
            [WriteControlPoints(t, Splice1(t.controlPoints, t.selectedPointIndex))
                EXCEPT !.selectedPointIndex = 0 - 1]))
    ELSE t

\* Track.update: 'A' inserts a point at the mouse
Added(t, input) == IF input.KeyA THEN insertPointAt(t, input.worldMouse) ELSE t

\* Track.update(input, worldMouse)
Track_update(t, input) ==
    IF ~t.isEditing THEN t
    ELSE LET t1 == Selected(t, input)
         IN IF DragThrows(t1, input) THEN t1
            ELSE Added(Deleted(Dragged(t1, input), input), input)

\* the panel's 'Reset / Clear Track'
clearTrack(t) == save(createDefaultTrack([t EXCEPT !.controlPoints = <<>>, !.shared = FALSE]))

(***************************************************************************)
(* SpecTrack: the track editor.  One frame of editing is one Track.update  *)
(* with the state of the mouse and of the keys D and A.                    *)
(***************************************************************************)
MaxEdits == 4

\* what localStorage holds at start: nothing, or the track an earlier session
\* saved after deleting one point of the built-in track
StoredTracks == { NoItem, [present |-> TRUE, points |-> SubSeq(trackData, 1, 3)] }

\* on a point, on another point, and off the points near a segment
MousePoints == { Point(0, 0), Point(8, 8), Point(4, 1) }

Keys(mouseClicked, isMouseDown, KeyD, KeyA) ==
    [mouseClicked |-> mouseClicked, isMouseDown |-> isMouseDown, KeyD |-> KeyD, KeyA |-> KeyA]

\* a click, a held button, D, A, and a click together with D
KeyStates ==
    { Keys(TRUE, TRUE, FALSE, FALSE), Keys(FALSE, TRUE, FALSE, FALSE),
      Keys(FALSE, FALSE, TRUE, FALSE), Keys(FALSE, FALSE, FALSE, TRUE),
      Keys(TRUE, TRUE, TRUE, FALSE) }

EditorInputs ==
    { [mouseClicked |-> k.mouseClicked, isMouseDown |-> k.isMouseDown,
       KeyD |-> k.KeyD, KeyA |-> k.KeyA, worldMouse |-> m] :
         k \in KeyStates, m \in MousePoints }

InitTrack ==
    /\ panel = Idle
    /\ \E storage \in StoredTracks : track = Track_new(storage)
    /\ call = [op |-> "new Track"]
    /\ steps = 0
    /\ heap = EmptyHeap
    /\ world = Idle

TrackUpdate ==
    /\ steps < MaxEdits
    /\ \E input \in EditorInputs :
          /\ track' = Track_update(track, input)
          /\ call' = [op |-> "Track.update", input |-> input]
    /\ steps' = steps + 1
    /\ UNCHANGED <<heap, world>>

SetEditMode ==
    /\ steps < MaxEdits
    /\ \E v \in BOOLEAN :
          /\ track' = [track EXCEPT !.isEditing = v]
          /\ call' = [op |-> "editMode", value |-> v]
    /\ steps' = steps + 1
    /\ UNCHANGED <<heap, world>>

ClearTrack ==
    /\ steps < MaxEdits
    /\ track' = clearTrack(track)
    /\ call' = [op |-> "clearTrack"]
    /\ steps' = steps + 1
    /\ UNCHANGED <<heap, world>>

NextTrack ==
    \/ TrackUpdate /\ UNCHANGED panel
    \/ SetEditMode /\ UNCHANGED panel
    \/ ClearTrack /\ UNCHANGED panel

SpecTrack == InitTrack /\ [][NextTrack]_vars

\* a lone press of D on a selected point of a three-point track
LoneDelete(input) ==
    /\ input.KeyD /\ ~input.KeyA /\ ~input.isMouseDown /\ ~input.mouseClicked

\* C10: from a track of at least 3 control points, no sequence of deletes,
\* inserts and drags leaves fewer than 3 control points; and a press of D
\* alone on a selected point of a three-point track changes neither the
\* control points nor the path nor the two boundaries.
C10_DeleteGuard ==
    /\ [](Len(track.controlPoints) >= 3)
    /\ [][(/\ call'.op = "Track.update"
           /\ LoneDelete(call'.input)
           /\ track.isEditing
           /\ track.selectedPointIndex # 0 - 1
           /\ Len(track.controlPoints) = 3)
             => /\ track'.controlPoints = track.controlPoints
                /\ track'.path = track.path
                /\ track'.innerLoop = track.innerLoop
                /\ track'.outerLoop = track.outerLoop]_vars

\* D was pressed alone in edit mode on a selected point of a three-point track
C10_Witness ==
    /\ call.op = "Track.update"
    /\ LoneDelete(call.input)
    /\ track.isEditing
    /\ track.selectedPointIndex # 0 - 1
    /\ Len(track.controlPoints) = 3

(***************************************************************************)
(* World.  The population, the track and the times are scaled down: a      *)
(* population of populationSize (50 in GA_CONFIG), of which the TOP_N best *)
(* (10 in nextGeneration) are parents at least, GA_CONFIG_eliteCount       *)
(* elites (15); time is counted in ticks of 1/60 s, a generation lasting   *)
(* GenerationTicks ticks (60 s) and ending after NoImprovementTicks ticks  *)
(* (15 s) without a better best fitness.  mutationRate is in thousandths.  *)
(***************************************************************************)
populationSize == 4
TOP_N == 2
GA_CONFIG_eliteCount == 3
GenerationTicks == 3
NoImprovementTicks == 1

GA_CONFIG_mutationRate == 100
GA_CONFIG_minMutationRate == 50
GA_CONFIG_maxMutationRate == 200
GA_CONFIG_mutationDecayRate == 98
PLATEAU_CHECK_GENERATIONS == 20

\* a localStorage item: absent, or one value
Absent == <<>>
Item(v) == <<v>>

\* a World after its constructor, before init()
World_new(vehicleCount) ==
    [vehicles |-> <<>>, bestVehicle |-> 0, bodies |-> 0, bodiesLeft |-> 0,
     vehicleCount |-> vehicleCount, simulationRunning |-> TRUE,
     generation |-> 1, generationTime |-> GenerationTicks, generationTimer |-> 0,
     eliteCount |-> GA_CONFIG_eliteCount, mutationRate |-> GA_CONFIG_mutationRate,
     lastBestFitness |-> 0, lastImprovementTime |-> 0,
     bestBrainEver |-> 0, bestFitnessEver |-> 0, generationHistory |-> <<>>,
     storage |-> [bestBrain |-> Absent, generationHistory |-> Absent]]

\* Math.floor(Math.random() * length)
RandomIndex(u, length) == (u * length) \div 1000

\* i < this.eliteCount
IsElite(i, eliteCount) == i < eliteCount

\* the brain of vehicle i of a bred generation; the brain is Len(brns)
Offspring(M, s, w, parentBrains, i) ==
    IF IsElite(i, w.eliteCount)
    THEN Brain_clone(M, parentBrains[i + 1])
    ELSE LET parent1 == parentBrains[RandomIndex(Rand(s, M.k), Len(parentBrains)) + 1]
             parent2 == parentBrains[RandomIndex(Rand(s, M.k + 1), Len(parentBrains)) + 1]
             Mutated(M1) == Brain_mutate(M1, s, Len(M1.brns), w.mutationRate)
         IN Mutated(Brain_crossover([M EXCEPT !.k = @ + 2], s, parent1, parent2))

\* (mutant) the vehicles of the generation before are kept
ClearedVehicles_kept(vehicles) == vehicles

\* this.vehicles = []
ClearedVehicles(vehicles) == <<>>

\* the loop of spawnGeneration from vehicle i on
RECURSIVE SpawnLoop(_, _, _, _, _, _)
SpawnLoop(M, s, w, parentBrains, vehicles, i) ==
    IF i >= w.vehicleCount THEN [M |-> M, vehicles |-> vehicles]
    ELSE LET Pushed(M1) ==
                 SpawnLoop(M1, s, w, parentBrains,
                           Append(vehicles, Vehicle_new(Len(M1.brns), i)), i + 1)
         IN Pushed(IF Len(parentBrains) = 0
                   THEN Brain_new(M, s, INPUT_COUNT, HIDDEN_LAYERS, OUTPUT_COUNT)
                   ELSE Offspring(M, s, w, parentBrains, i))

\* (mutant) no body is removed
Removed_none(bodies, vehicles) == bodies

\* the vehicle bodies in the physics world after removeRigidBody(vehicle.body)
\* for every vehicle of this.vehicles
Removed(bodies, vehicles) == bodies - Len(vehicles)

\* World.spawnGeneration(parentBrains); no parentBrains is <<>>.  The removal
\* loop runs first and every new Vehicle makes one body: bodiesLeft is the
\* number of vehicle bodies in the physics world when the first is made
spawnGeneration(M, s, w, parentBrains) ==
    LET Spawned(R) ==
            [M |-> R.M,
             world |-> [w EXCEPT !.vehicles = R.vehicles,
                                 !.bodiesLeft = Removed(w.bodies, w.vehicles),
                                 !.bodies = Removed(@, w.vehicles) + w.vehicleCount,
                                 !.bestVehicle = IF Len(R.vehicles) > 0 THEN 1 ELSE 0,
                                 !.generationTimer = 0]]
    IN Spawned(SpawnLoop(M, s, w, parentBrains, ClearedVehicles(w.vehicles), 0))

\* (mutant) the lowest fitness first
Compare_ascending(a, b) == a.fitness - b.fitness

\* the comparator of the sort: (a, b) => b.fitness - a.fitness
Compare(a, b) == b.fitness - a.fitness

\* x put before the first entry from j on that the comparator puts after it
RECURSIVE InsertSorted(_, _, _)
InsertSorted(sorted, x, j) ==
    IF j > Len(sorted) THEN Append(sorted, x)
    ELSE IF Compare(x, sorted[j]) < 0
    THEN SubSeq(sorted, 1, j - 1) \o <<x>> \o SubSeq(sorted, j, Len(sorted))
    ELSE InsertSorted(sorted, x, j + 1)

\* Array.prototype.sort (stable) of the entries from i on into sorted
RECURSIVE SortFrom(_, _, _)
SortFrom(entries, i, sorted) ==
    IF i > Len(entries) THEN sorted
    ELSE SortFrom(entries, i + 1, InsertSorted(sorted, entries[i], 1))

\* reduce((sum, v) => sum + v.fitness, 0) over the entries from i on
RECURSIVE SumFitness(_, _)
SumFitness(entries, i) ==
    IF i > Len(entries) THEN 0 ELSE entries[i].fitness + SumFitness(entries, i + 1)

\* reduce((sum, g) => sum + g.bestFitness, 0) over history[from..to]
RECURSIVE SumBest(_, _, _)
SumBest(history, from, to) ==
    IF from > to THEN 0 ELSE history[from].bestFitness + SumBest(history, from + 1, to)

\* World.detectPlateau(): (avgRecent - avgOlder) / avgOlder < 0.05, the
\* difference of the sums compared with a twentieth of the older sum
detectPlateau(w) ==
    LET checkGen == PLATEAU_CHECK_GENERATIONS
        n == Len(w.generationHistory)
        sumRecent == SumBest(w.generationHistory, n - checkGen + 1, n)
        sumOlder == SumBest(w.generationHistory, n - 2 * checkGen + 1, n - checkGen)
    IN IF n < checkGen * 2 THEN FALSE
       ELSE IF sumOlder = 0 THEN FALSE
       ELSE IF sumOlder > 0 THEN sumRecent - sumOlder <= (sumOlder - 1) \div 20
       ELSE sumRecent - sumOlder >= (sumOlder \div 20) + 1

\* maxMutationRate * Math.pow(mutationDecayRate, generation), in millionths
RECURSIVE DecayedRate(_)
DecayedRate(generation) ==
    IF generation <= 0 THEN GA_CONFIG_maxMutationRate * 1000
    ELSE (DecayedRate(generation - 1) * GA_CONFIG_mutationDecayRate) \div 100

\* World.getAdaptiveMutationRate()
getAdaptiveMutationRate(w) ==
    Max(GA_CONFIG_minMutationRate, DecayedRate(w.generation) \div 1000)

\* the vehicles with their fitness, sorted
Ranked(vehicles) ==
    SortFrom([i \in 1..Len(vehicles) |->
                 [vehicle |-> i, fitness |-> calculate(vehicles[i])]] \o <<>>, 1, <<>>)

\* (mutant) every vehicle of the generation is a parent
ParentCount_all(n, eliteCount) == n

\* the length of sorted.slice(0, Math.max(this.eliteCount, 10)), sorted of length n
ParentCount(n, eliteCount) == Min(n, Max(eliteCount, TOP_N))

\* (mutant) a best fitness that only equals the best ever also counts
Improves_orEqual(bestFitness, bestFitnessEver) == bestFitness >= bestFitnessEver

\* bestFitness > this.bestFitnessEver
Improves(bestFitness, bestFitnessEver) == bestFitness > bestFitnessEver

\* World.nextGeneration(), spawnGeneration(parentBrains) included
nextGeneration(M, s, w) ==
    LET Bred(sorted) ==
          LET bestFitness == sorted[1].fitness
              avgFitness == SumFitness(sorted, 1) \div Len(sorted)
              avgTop10 == SumFitness(SubSeq(sorted, 1, Min(TOP_N, Len(sorted))), 1) \div TOP_N
              improved == Improves(bestFitness, w.bestFitnessEver)
              history == Append(w.generationHistory,
                                [gen |-> w.generation, bestFitness |-> bestFitness,
                                 avgFitness |-> avgFitness, avgTop10 |-> avgTop10])
              parents == ParentCount(Len(sorted), w.eliteCount)
              parentBrains == [i \in 1..parents |-> w.vehicles[sorted[i].vehicle].brain] \o <<>>
              Adapted(w1) ==
                  [w1 EXCEPT
                     !.mutationRate =
                         IF detectPlateau(w1)
                         THEN Min(GA_CONFIG_maxMutationRate, (@ * 3) \div 2)
                         ELSE getAdaptiveMutationRate(w1),
                     !.generation = @ + 1]
              Kept(M1) ==
                  spawnGeneration(M1, s,
                      Adapted([w EXCEPT
                         !.bestFitnessEver = IF improved THEN bestFitness ELSE @,
                         !.bestBrainEver = IF improved THEN Len(M1.brns) ELSE @,
                         !.storage.bestBrain =
                             IF improved THEN Item(BrainValue(M1, Len(M1.brns))) ELSE @,
                         !.generationHistory = history,
                         !.storage.generationHistory = Item(history)]),
                      parentBrains)
          IN Kept(IF improved THEN Brain_clone(M, w.vehicles[sorted[1].vehicle].brain) ELSE M)
    IN Bred(Ranked(w.vehicles))

\* Vehicle.getBrainInputs(): one reading per sensor, updateSensors having made
\* sensorCount sensors, then the normalized speed and angular velocity.
\* pose.inputs holds these for SensorCount sensors; further rays read what
\* the first ones read
getBrainInputs(v, pose) ==
    [i \in 1..v.sensorCount |-> pose.inputs[((i - 1) % SensorCount) + 1]]
        \o SubSeq(pose.inputs, SensorCount + 1, SensorCount + 2)

\* Vehicle.update and updateTrackProgress for one vehicle whose body the
\* physics step left in pose: moved since the last frame, the brain fed
\* with the pose's sensor and velocity inputs
PlayVehicle(M, v, pose, length) ==
    [M |-> Brain_feedForward(M, getBrainInputs(v, pose), v.brain),
     vehicle |-> updateTrackProgress([v EXCEPT !.distanceTraveled = @ + pose.moved],
                                     length, pose.nearestIndex, pose.minDist, pose.angvel)]

\* the loop over the vehicles from i on, the dead ones skipped
RECURSIVE PlayLoop(_, _, _, _, _)
PlayLoop(M, vehicles, poses, length, i) ==
    IF i > Len(vehicles) THEN [M |-> M, vehicles |-> vehicles]
    ELSE IF ~vehicles[i].isAlive THEN PlayLoop(M, vehicles, poses, length, i + 1)
    ELSE LET Updated(R) ==
                 PlayLoop(R.M, [vehicles EXCEPT ![i] = R.vehicle], poses, length, i + 1)
         IN Updated(PlayVehicle(M, vehicles[i], poses[i], length))

\* the loop that finds the best alive vehicle from i on
RECURSIVE BestLoop(_, _, _, _)
BestLoop(vehicles, i, bestFitness, bestVehicle) ==
    IF i > Len(vehicles) THEN [bestFitness |-> bestFitness, bestVehicle |-> bestVehicle]
    ELSE IF ~vehicles[i].isAlive THEN BestLoop(vehicles, i + 1, bestFitness, bestVehicle)
    ELSE LET Compared(fitness) ==
                 IF fitness > bestFitness
                 THEN BestLoop(vehicles, i + 1, fitness, i)
                 ELSE BestLoop(vehicles, i + 1, bestFitness, bestVehicle)
         IN Compared(calculate(vehicles[i]))

AliveCount(vehicles) == Cardinality({i \in 1..Len(vehicles) : vehicles[i].isAlive})

\* (mutant) the time is up one tick later still
timeUp_late(generationTimer, generationTime) == generationTimer > generationTime + 1

\* timeUp = this.generationTimer >= this.generationTime, where generationTimer
\* is a double to which 1/60 has been added once per tick since the spawn.
\* The additions round: from 23 s on the sum lies below the number of ticks
\* divided by 60 (3600 additions give 59.999999999997875, 3601 give
\* 60.01666666666454), so at a generationTime of 23 s or more, the default
\* 60 s included, the test first succeeds one tick after generationTime * 60
timeUp(generationTimer, generationTime) == generationTimer > generationTime

\* (mutant) mostDead only when fewer than a quarter are alive
GenerationEnds_fewerThanQuarter(w) ==
    \/ AliveCount(w.vehicles) = 0
    \/ timeUp(w.generationTimer, w.generationTime)
    \/ w.generationTimer - w.lastImprovementTime > NoImprovementTicks
    \/ AliveCount(w.vehicles) * 4 < w.vehicleCount

\* aliveCount === 0 || timeUp || stagnant || mostDead
GenerationEnds(w) ==
    \/ AliveCount(w.vehicles) = 0
    \/ timeUp(w.generationTimer, w.generationTime)
    \/ w.generationTimer - w.lastImprovementTime > NoImprovementTicks
    \/ AliveCount(w.vehicles) * 4 <= w.vehicleCount

\* play mode, up to the test for the end of the generation
Played(M, w, length, poses) ==
    LET timer == w.generationTimer + 1
        Improved(R, B) ==
            [M |-> R.M, bestFitness |-> B.bestFitness,
             world |-> [w EXCEPT
                          !.generationTimer = timer,
                          !.vehicles = R.vehicles,
                          !.bestVehicle = B.bestVehicle,
                          !.lastBestFitness = Max(@, B.bestFitness),
                          !.lastImprovementTime =
                              IF B.bestFitness > w.lastBestFitness THEN timer ELSE @]]
        Best(R) == Improved(R, BestLoop(R.vehicles, 1, 0 - 1, w.bestVehicle))
    IN Best(PlayLoop(M, w.vehicles, poses, length, 1))

\* (mutant) the collision events are ignored
Collided_ignored(vehicles, hits) == vehicles

\* drainCollisionEvents: an alive vehicle whose collider started a contact dies
Collided(vehicles, hits) ==
    [i \in 1..Len(vehicles) |->
        IF i \in hits THEN [vehicles[i] EXCEPT !.isAlive = FALSE] ELSE vehicles[i]] \o <<>>

\* World.update(input) in play mode from the end-of-generation test on: P is
\* what the frame has made so far, s the stream spawnGeneration draws from,
\* hits the vehicles whose contact with a wall the physics step reports
Finished(P, s, hits) ==
    LET Drained(R) == [M |-> R.M, world |-> [R.world EXCEPT !.vehicles = Collided(@, hits)]]
    IN Drained(IF GenerationEnds(P.world) THEN nextGeneration(P.M, s, P.world) ELSE P)

\* the panel's 'Reset Training'
resetTraining(M, s, w) ==
    spawnGeneration(M, s,
        [w EXCEPT !.storage = [bestBrain |-> Absent, generationHistory |-> Absent],
                  !.bestBrainEver = 0, !.bestFitnessEver = 0,
                  !.generation = 1, !.generationHistory = <<>>],
        <<>>)

(***************************************************************************)
(* World.serializeBrain / deserializeBrain.  The persisted data is what    *)
(* JSON.parse gives: no object with a levels array at all, or a levels     *)
(* array whose entries are null or objects that may lack weights or        *)
(* biases.  A missing field is hasWeights / hasBiases = FALSE.             *)
(***************************************************************************)
\* the widths of the configured topology: inputs, hidden layers, outputs
Widths == <<INPUT_COUNT>> \o HIDDEN_LAYERS \o <<OUTPUT_COUNT>>

\* !levelData.weights || !levelData.biases || weights.length !== rows
LevelMismatch(levelData, rows) ==
    \/ ~levelData.hasWeights
    \/ ~levelData.hasBiases
    \/ Len(levelData.weights) # rows

\* brain.levels[i].weights = levelData.weights; .biases = levelData.biases:
\* the arrays JSON.parse made become the level's arrays
AssignLevel(M, l, levelData) ==
    LET n == Len(M.arrs)
        rows == Len(levelData.weights)
    IN [M EXCEPT !.arrs = @ \o levelData.weights \o <<levelData.biases>>,
                 !.lvls[l].weights = [i \in 1..rows |-> n + i] \o <<>>,
                 !.lvls[l].biases = n + rows + 1]

\* the loop of deserializeBrain from level i on; reading a field of a null
\* entry throws a TypeError
RECURSIVE LoadLevels(_, _, _, _)
LoadLevels(M, b, levels, i) ==
    IF i > Len(M.brns[b]) \/ i > Len(levels) THEN [M |-> M, thrown |-> FALSE]
    ELSE IF levels[i].isNull THEN [M |-> M, thrown |-> TRUE]
    ELSE IF LevelMismatch(levels[i], Len(M.lvls[M.brns[b][i]].weights))
    THEN LoadLevels(M, b, levels, i + 1)
    ELSE LoadLevels(AssignLevel(M, M.brns[b][i], levels[i]), b, levels, i + 1)

\* World.deserializeBrain(data); the brain returned is Len(brns)
deserializeBrain(M, s, data) ==
    LET Loaded(M1) ==
            IF ~data.hasLevels THEN [M |-> M1, thrown |-> FALSE]
            ELSE LoadLevels(M1, Len(M1.brns), data.levels, 1)
    IN Loaded(Brain_new(M, s, INPUT_COUNT, HIDDEN_LAYERS, OUTPUT_COUNT))

\* JSON.parse of a stored 'bestBrain' item, which serializeBrain made
Parsed(brain) ==
    [hasLevels |-> TRUE,
     levels |-> [i \in 1..Len(brain) |->
                    [isNull |-> FALSE, hasWeights |-> TRUE, hasBiases |-> TRUE,
                     weights |-> brain[i].weights \o <<>>, biases |-> brain[i].biases]] \o <<>>]

\* Math.max(...historyData.map(h => h.bestFitness)) from entry i on
RECURSIVE MaxBest(_, _)
MaxBest(history, i) ==
    IF i > Len(history) THEN 0 - Infinity
    ELSE Max(history[i].bestFitness, MaxBest(history, i + 1))

\* (mutant) the run resumes in the stored history's last generation
Resumed_inLast(w) ==
    LET history == IF w.storage.generationHistory = Absent THEN <<>>
                   ELSE w.storage.generationHistory[1]
    IN IF Len(history) = 0 THEN w
       ELSE [w EXCEPT !.generationHistory = history,
                      !.generation = history[Len(history)].gen,
                      !.bestFitnessEver = MaxBest(history, 1)]

\* an item whose text JSON.parse rejects (a pair, where Item is one value),
\* and the null that may stand in a parsed array for a record
Garbled == <<0, 0>>
null == <<>>
IsNull(record) == DOMAIN record = {}

\* the history part of World.init(): a stored history that is not empty is
\* taken over and the run resumes after its last generation.  The
\* statements run in this order inside one try block, so an exception
\* (of JSON.parse, of lastGen.gen or h.bestFitness on a null) leaves what
\* was assigned before it
Resumed(w) ==
    LET item == w.storage.generationHistory
        history == item[1]
        last == history[Len(history)]
        Taken == [w EXCEPT !.generationHistory = history]
        Numbered == [Taken EXCEPT !.generation = last.gen + 1]
    IN IF item = Absent \/ item = Garbled THEN w
       ELSE IF Len(history) = 0 THEN w
       ELSE IF IsNull(last) THEN Taken
       ELSE IF \E i \in 1..Len(history) : IsNull(history[i]) THEN Numbered
       ELSE [Numbered EXCEPT !.bestFitnessEver = MaxBest(history, 1)]

\* World.init(): the stored best brain and history are loaded, then the first
\* generation is spawned; an exception of deserializeBrain is caught
World_init(M, s, w) ==
    LET Spawned(R) ==
            spawnGeneration(R.M, s,
                Resumed([w EXCEPT !.bestBrainEver =
                                     IF w.storage.bestBrain = Absent \/ R.thrown
                                     THEN @ ELSE Len(R.M.brns)]),
                <<>>)
    IN Spawned(IF w.storage.bestBrain = Absent THEN [M |-> M, thrown |-> FALSE]
               ELSE deserializeBrain(M, s, Parsed(w.storage.bestBrain[1])))

(***************************************************************************)
(* Spec: the training loop.  One step is one frame (World.update) or one   *)
(* use of the panel.  The physics engine is not modelled: a frame brings   *)
(* the pose of every body and the set of vehicles that hit a wall.  The   *)
(* track is not being edited (the editor is SpecTrack's).                  *)
(***************************************************************************)
MaxSteps == 4

\* populations: a single agent, and populationSize agents
PopulationSizes == {1, populationSize}

\* the streams spawnGeneration draws from
SpawnStreams == { <<500, 0>>, <<0, 400, 250, 900>> }

\* the positions of the 'Elite Count' slider
EliteCounts == {1, populationSize, populationSize + 1}

\* three poses: at the start off the centre line, one waypoint on, and at
\* the last waypoint on the centre line
PoseTable(length) ==
    << [nearestIndex |-> 0, minDist |-> 3, moved |-> 0, angvel |-> 0,
        inputs |-> [i \in 1..INPUT_COUNT |-> 0] \o <<>>],
       [nearestIndex |-> 1, minDist |-> 1, moved |-> 1, angvel |-> 5,
        inputs |-> [i \in 1..INPUT_COUNT |-> 10] \o <<>>],
       [nearestIndex |-> length - 1, minDist |-> 0, moved |-> 2, angvel |-> 0 - 15,
        inputs |-> [i \in 1..INPUT_COUNT |-> IF i = INPUT_COUNT THEN 0 - 10 ELSE 5] \o <<>>] >>

\* vehicle i takes the pose i + shift of the table, cyclically
Poses(n, length, shift) ==
    [i \in 1..n |-> PoseTable(length)[((i + shift) % 3) + 1]] \o <<>>

\* every vehicle stands at the start, off the centre line
Standing(n, length) == [i \in 1..n |-> PoseTable(length)[1]] \o <<>>

\* the first vehicle is at the last waypoint, the others stand at the start
Leading(n, length) ==
    [i \in 1..n |-> PoseTable(length)[IF i = 1 THEN 3 ELSE 1]] \o <<>>

\* the frames: the vehicles drive and nobody hits a wall; they all stand; the
\* first vehicle reaches the last waypoint and hits a wall; all the others
\* hit a wall
Frames(n, length) ==
    { [poses |-> Poses(n, length, 0), hits |-> {}],
      [poses |-> Standing(n, length), hits |-> {}],
      [poses |-> Leading(n, length), hits |-> {1}],
      [poses |-> Poses(n, length, 0), hits |-> 2..n] }

\* the fitness and the brain of every vehicle when the generation ends
FinalStandings(M, w) ==
    [i \in 1..Len(w.vehicles) |->
        [fitness |-> calculate(w.vehicles[i]),
         brain |-> BrainValue(M, w.vehicles[i].brain)]] \o <<>>

\* what the end-of-generation test of a frame reads
Checked(w) ==
    [generationTimer |-> w.generationTimer, generationTime |-> w.generationTime,
     lastImprovementTime |-> w.lastImprovementTime,
     aliveCount |-> AliveCount(w.vehicles), vehicleCount |-> w.vehicleCount]

Init ==
    /\ panel = Idle
    /\ \E vehicleCount \in PopulationSizes, s \in SpawnStreams :
          LET Started(R) == heap = HeapOf(R.M) /\ world = R.world
          IN Started(World_init(Machine(EmptyHeap), s, World_new(vehicleCount)))
    /\ track = Track_new(NoItem)
    /\ call = [op |-> "init", ended |-> FALSE, final |-> <<>>]
    /\ steps = 0

\* the best fitness an alive vehicle had in the earlier frames of the running
\* generation, -1 before its first frame; c is the record of the last call,
\* a frame or a call that has spawned a generation
BestBefore(c) == IF c.op = "update" /\ ~c.ended THEN Max(c.before, c.best) ELSE 0 - 1

\* World.update(input) in play mode: Played, then Finished
WorldUpdate ==
    /\ world.simulationRunning
    /\ ~track.isEditing
    /\ \E frame \in Frames(Len(world.vehicles), Len(track.path)) :
          LET Ended(P) ==
                  \E s \in IF GenerationEnds(P.world) THEN SpawnStreams ELSE {<<0>>} :
                      LET Updated(R) ==
                              /\ heap' = HeapOf(R.M)
                              /\ world' = R.world
                              /\ call' = [op |-> "update", ended |-> GenerationEnds(P.world),
                                          final |-> IF GenerationEnds(P.world)
                                                    THEN FinalStandings(P.M, P.world)
                                                    ELSE <<>>,
                                          played |-> Checked(P.world), stream |-> s,
                                          hits |-> frame.hits,
                                          best |-> P.bestFitness, before |-> BestBefore(call)]
                      IN Updated(Finished(P, s, frame.hits))
          IN Ended(Played(Machine(heap), world, Len(track.path), frame.poses))
    /\ steps' = steps + 1
    /\ UNCHANGED track

ResetTraining ==
    /\ \E s \in SpawnStreams :
          LET Reset(R) == heap' = HeapOf(R.M) /\ world' = R.world
          IN Reset(resetTraining(Machine(heap), s, world))
    /\ call' = [op |-> "resetTraining", ended |-> FALSE, final |-> <<>>]
    /\ steps' = steps + 1
    /\ UNCHANGED track

SetEliteCount ==
    /\ \E eliteCount \in EliteCounts : world' = [world EXCEPT !.eliteCount = eliteCount]
    /\ call' = [op |-> "eliteCount", ended |-> FALSE, final |-> <<>>]
    /\ steps' = steps + 1
    /\ UNCHANGED <<heap, track>>

Next ==
    \/ steps < MaxSteps /\ WorldUpdate /\ UNCHANGED panel
    \/ steps < MaxSteps /\ ResetTraining /\ UNCHANGED panel
    \/ steps < MaxSteps /\ SetEliteCount /\ UNCHANGED panel

Spec == Init /\ [][Next]_vars

\* C1: after every spawnGeneration (the one of init, the one that ends a
\* generation, the one of Reset Training), whatever the population size and
\* the elite count, the population holds exactly vehicleCount agents
C1_PopulationSize == Len(world.vehicles) = world.vehicleCount

\* a generation of several agents has ended with more elites asked for than
\* there are agents
C1_Witness ==
    /\ call.op = "update"
    /\ call.ended
    /\ world.vehicleCount > 1
    /\ world.eliteCount > world.vehicleCount
    /\ Len(world.vehicles) = world.vehicleCount

\* ranking is a ranking of the standings by descending fitness
Ranks(ranking, standings) ==
    \A j \in 1..(Len(standings) - 1) :
        standings[ranking[j]].fitness >= standings[ranking[j + 1]].fitness

\* C2: when a generation has ended, for every i below min(eliteCount, N) the
\* brain of agent i of the new generation has the weights and the biases of
\* the agent ranked i-th by descending final fitness in the generation that
\* ended
C2_Elitism ==
    (call.op = "update" /\ call.ended) =>
        \E ranking \in Permutations(1..Len(call.final)) :
            /\ Ranks(ranking, call.final)
            /\ \A i \in 1..Min(world.eliteCount, world.vehicleCount) :
                  BrainValue(heap, world.vehicles[i].brain) = call.final[ranking[i]].brain

\* a generation has ended in which the first agent was not the fittest and
\* did not have the fittest agent's weights, and not every agent of the new
\* generation is an elite
C2_Witness ==
    /\ call.op = "update"
    /\ call.ended
    /\ world.eliteCount < world.vehicleCount
    /\ \E j \in 2..Len(call.final) :
          /\ \A i \in 1..Len(call.final) : i # j => call.final[j].fitness > call.final[i].fitness
          /\ call.final[j].brain # call.final[1].brain
          /\ BrainValue(heap, world.vehicles[1].brain) = call.final[j].brain

\* C11: a World made with an elite count above the population size fails at
\* construction, before any generation is spawned: no World that init() has
\* given a generation has more elites than agents
C11_ConfigRejected ==
    call.op = "init" => ~(world.eliteCount > world.vehicleCount /\ Len(world.vehicles) > 0)

(***************************************************************************)
(* SpecLoad: one call of deserializeBrain on persisted data.               *)
(***************************************************************************)
\* a persisted level of `rows` rows of `columns` weights and `biases` biases
LevelData(rows, columns, biases) ==
    [isNull |-> FALSE, hasWeights |-> TRUE, hasBiases |-> TRUE,
     weights |-> [i \in 1..rows |-> [j \in 1..columns |-> 5] \o <<>>] \o <<>>,
     biases |-> [j \in 1..biases |-> 0 - 5] \o <<>>]

\* what may be persisted for a level of inputCount x outputCount: the right
\* shape, null, no weights, no biases, a row too many, a column too many, a
\* bias too many
LevelEntries(inputCount, outputCount) ==
    { LevelData(inputCount, outputCount, outputCount),
      [LevelData(0, 0, 0) EXCEPT !.isNull = TRUE],
      [LevelData(0, 0, outputCount) EXCEPT !.hasWeights = FALSE],
      [LevelData(inputCount, outputCount, 0) EXCEPT !.hasBiases = FALSE],
      LevelData(inputCount + 1, outputCount, outputCount),
      LevelData(inputCount, outputCount + 1, outputCount),
      LevelData(inputCount, outputCount, outputCount + 1) }

\* persisted brain data: nothing usable, one level only, or a level for each
\* level of the topology
BrainData ==
    {[hasLevels |-> FALSE, levels |-> <<>>]}
    \cup {[hasLevels |-> TRUE, levels |-> <<first>>] :
            first \in LevelEntries(Widths[1], Widths[2])}
    \cup {[hasLevels |-> TRUE, levels |-> <<first, second>>] :
            first \in LevelEntries(Widths[1], Widths[2]),
            second \in LevelEntries(Widths[2], Widths[3])}

InitLoad ==
    /\ panel = Idle
    /\ \E data \in BrainData : call = [op |-> "JSON.parse", data |-> data, thrown |-> FALSE]
    /\ heap = EmptyHeap
    /\ steps = 0
    /\ world = Idle
    /\ track = Idle

DeserializeBrain ==
    /\ call.op = "JSON.parse"
    /\ \E s \in RandStreams :
          LET Returned(R) ==
                  /\ heap' = HeapOf(R.M)
                  /\ call' = [call EXCEPT !.op = "deserializeBrain", !.thrown = R.thrown]
          IN Returned(deserializeBrain(Machine(heap), s, call.data))
    /\ steps' = steps + 1
    /\ UNCHANGED <<world, track>>

NextLoad == DeserializeBrain /\ UNCHANGED panel

SpecLoad == InitLoad /\ [][NextLoad]_vars

\* the levels of brain b have the shape of the configured topology
ConfiguredShape(h, b) ==
    /\ Len(h.brns[b]) = Len(Widths) - 1
    /\ \A i \in 1..Len(h.brns[b]) :
          /\ Len(LevelWeights(h, h.brns[b][i])) = Widths[i]
          /\ \A r \in 1..Len(LevelWeights(h, h.brns[b][i])) :
                Len(LevelWeights(h, h.brns[b][i])[r]) = Widths[i + 1]
          /\ Len(LevelBiases(h, h.brns[b][i])) = Widths[i + 1]

\* C12: whatever the persisted data (rows, columns or biases of the wrong
\* number, weights or biases missing, null entries), deserializeBrain does
\* not throw and returns a brain in which every level has an
\* inputWidth x outputWidth weight matrix and outputWidth biases
C12_LoadTolerant ==
    call.op = "deserializeBrain"
        => ~call.thrown /\ ConfiguredShape(heap, Len(heap.brns))

\* the four reasons of the claim, on what the test of a frame reads
TimeUp(c) == timeUp(c.generationTimer, c.generationTime)
NoneAlive(c) == c.aliveCount = 0
Stagnant(c) == c.generationTimer - c.lastImprovementTime > NoImprovementTicks
MostDead(c) == c.aliveCount * 4 <= c.vehicleCount

\* C13: in play mode a frame ends the generation (nextGeneration runs: the
\* generation counter moves on) if and only if at its test the timer has
\* reached generationTime, or no agent is alive, or the time since the last
\* improvement exceeds the timeout, or a quarter of the agents or fewer are alive
C13_EndConditions ==
    [][call'.op = "update"
          => ((world'.generation = world.generation + 1)
                <=> (\/ TimeUp(call'.played) \/ NoneAlive(call'.played)
                     \/ Stagnant(call'.played) \/ MostDead(call'.played)))]_vars

\* a generation has ended because exactly a quarter of the agents were alive,
\* in time and with an improvement in the frame before
C13_Witness ==
    /\ call.op = "update"
    /\ call.ended
    /\ world.generation > 1
    /\ call.played.aliveCount * 4 = call.played.vehicleCount
    /\ ~TimeUp(call.played)
    /\ ~Stagnant(call.played)

(***************************************************************************)
(* SpecResume: a session that starts with a best brain and a generation    *)
(* history in localStorage, as an earlier session left them, and in which  *)
(* the panel's mutation-rate slider is moved.  A history of 2 *            *)
(* PLATEAU_CHECK_GENERATIONS entries lets detectPlateau() compare its two  *)
(* windows from the first generation end on.                               *)
(***************************************************************************)
\* a stored history of n generations from gen on, each with the best fitness
FlatHistory(gen, n, bestFitness) ==
    [i \in 1..n |-> [gen |-> gen + i - 1, bestFitness |-> bestFitness,
                     avgFitness |-> bestFitness \div 2,
                     avgTop10 |-> bestFitness \div 2]] \o <<>>

\* a brain as serializeBrain stores it, of the configured shape
StoredBrain ==
    [i \in 1..(Len(Widths) - 1) |->
        [weights |-> [r \in 1..Widths[i] |-> [c \in 1..Widths[i + 1] |-> 5] \o <<>>] \o <<>>,
         biases |-> [c \in 1..Widths[i + 1] |-> 0 - 5] \o <<>>]] \o <<>>

\* what an earlier session may have left: a history whose best fitness rose
\* between the two windows and no brain, or a flat history and its brain
Stored ==
    { [bestBrain |-> Absent,
       generationHistory |->
           Item(FlatHistory(1, PLATEAU_CHECK_GENERATIONS, 1000000)
                \o FlatHistory(PLATEAU_CHECK_GENERATIONS + 1,
                               PLATEAU_CHECK_GENERATIONS, 3000000))],
      [bestBrain |-> Item(StoredBrain),
       generationHistory |->
           Item(FlatHistory(1, 2 * PLATEAU_CHECK_GENERATIONS, 6000000))] }

\* the positions of the panel's mutationRate slider (0 to 1 in steps of
\* 0.01) that are tried: 0, 0.01 and 1
SliderRates == {0, 10, 1000}

InitResume ==
    /\ panel = Idle
    /\ \E vehicleCount \in PopulationSizes, s \in SpawnStreams, stored \in Stored :
          LET Started(R) == heap = HeapOf(R.M) /\ world = R.world
          IN Started(World_init(Machine(EmptyHeap), s,
                                [World_new(vehicleCount) EXCEPT !.storage = stored]))
    /\ track = Track_new(NoItem)
    /\ call = [op |-> "init", ended |-> FALSE, final |-> <<>>]
    /\ steps = 0

\* onChange of the panel's mutationRate slider: world.mutationRate = value
SetMutationRate ==
    /\ \E value \in SliderRates : world' = [world EXCEPT !.mutationRate = value]
    /\ call' = [op |-> "mutationRate", ended |-> FALSE, final |-> <<>>]
    /\ steps' = steps + 1
    /\ UNCHANGED <<heap, track>>

NextResume ==
    \/ steps < MaxSteps /\ WorldUpdate /\ UNCHANGED panel
    \/ steps < MaxSteps /\ SetMutationRate /\ UNCHANGED panel

SpecResume == InitResume /\ [][NextResume]_vars

\* C14: after a generation has ended, the mutation rate is neither below
\* GA_CONFIG.minMutationRate nor above GA_CONFIG.maxMutationRate
C14_RateClamped ==
    call.op = "update" /\ call.ended
        => /\ GA_CONFIG_minMutationRate <= world.mutationRate
           /\ world.mutationRate <= GA_CONFIG_maxMutationRate

\* the arrays (inputs, outputs, biases, weight rows) of brain b
BrainArrays(h, b) ==
    UNION { {h.lvls[h.brns[b][i]].inputs, h.lvls[h.brns[b][i]].outputs,
             h.lvls[h.brns[b][i]].biases}
            \cup {h.lvls[h.brns[b][i]].weights[r] :
                    r \in 1..Len(h.lvls[h.brns[b][i]].weights)} :
            i \in 1..Len(h.brns[b]) }

\* brain b is no vehicle's brain and shares no level and no array with one
Independent(h, b, vehicles) ==
    \A v \in 1..Len(vehicles) :
        /\ vehicles[v].brain # b
        /\ {h.brns[b][i] : i \in 1..Len(h.brns[b])}
             \cap {h.brns[vehicles[v].brain][i] : i \in 1..Len(h.brns[vehicles[v].brain])} = {}
        /\ BrainArrays(h, b) \cap BrainArrays(h, vehicles[v].brain) = {}

\* the agents of the standings that no other agent beats
Fittest(final) ==
    {i \in 1..Len(final) : \A j \in 1..Len(final) : final[i].fitness >= final[j].fitness}

\* C15: when a generation ends with a best fitness above bestFitnessEver,
\* bestFitnessEver becomes that fitness, bestBrainEver a new brain with the
\* weights and biases of a fittest agent, and the 'bestBrain' item those
\* weights and biases; otherwise the three stay as they are.  The best brain
\* shares nothing with the brains of the generation that ended or of the new
\* one, and bestFitnessEver does not decrease.
C15_BestEver ==
    [][call'.op = "update" /\ call'.ended =>
         /\ IF call'.final[CHOOSE i \in Fittest(call'.final) : TRUE].fitness
                  > world.bestFitnessEver
            THEN /\ world'.bestFitnessEver
                      = call'.final[CHOOSE i \in Fittest(call'.final) : TRUE].fitness
                 /\ world'.bestBrainEver > Len(heap.brns)
                 /\ \E i \in Fittest(call'.final) :
                      /\ BrainValue(heap', world'.bestBrainEver) = call'.final[i].brain
                      /\ world'.storage.bestBrain = Item(call'.final[i].brain)
            ELSE /\ world'.bestFitnessEver = world.bestFitnessEver
                 /\ world'.bestBrainEver = world.bestBrainEver
                 /\ world'.storage.bestBrain = world.storage.bestBrain
         /\ world'.bestBrainEver > 0
              => Independent(heap', world'.bestBrainEver, world.vehicles \o world'.vehicles)
         /\ world'.bestFitnessEver >= world.bestFitnessEver]_vars

\* a generation has ended below the best fitness ever, which an earlier
\* generation of this session had raised above the stored history's best
C15_Witness ==
    /\ call.op = "update"
    /\ call.ended
    /\ Len(world.generationHistory) >= 2 * PLATEAU_CHECK_GENERATIONS + 2
    /\ \A i \in 1..Len(call.final) : call.final[i].fitness < world.bestFitnessEver
    /\ world.bestFitnessEver
         > world.generationHistory[2 * PLATEAU_CHECK_GENERATIONS].bestFitness
    /\ world.bestBrainEver > 0
    /\ world.storage.bestBrain = Item(BrainValue(heap, world.bestBrainEver))

\* index i of a path of the given length is in its first, its last tenth
NearStart(i, length) == i * 10 < length
NearEnd(i, length) == i * 10 > length * 9

\* C16: a call of updateTrackProgress raises lapsCompleted only by one, and
\* only when the nearest waypoint is in the first tenth of the path and the
\* nearest waypoint of the call before was in the last tenth
C16_LapOnCrossing ==
    [][call'.op = "updateTrackProgress"
          /\ call'.vehicle.lapsCompleted > call.vehicle.lapsCompleted
          => /\ call'.vehicle.lapsCompleted = call.vehicle.lapsCompleted + 1
             /\ NearStart(call'.nearestIndex, call.length)
             /\ call.op = "updateTrackProgress"
             /\ NearEnd(call.nearestIndex, call.length)]_vars

\* C17: framesWithoutProgress is 0 at spawn, and every call of
\* updateTrackProgress makes it 0 when trackProgress has advanced and adds
\* one to it otherwise
C17_FramesCounted ==
    [][call'.op = "updateTrackProgress"
          => call'.vehicle.framesWithoutProgress
               = IF call'.vehicle.trackProgress > call.vehicle.trackProgress THEN 0
                 ELSE IF call.op = "new Vehicle" THEN 1
                 ELSE call.vehicle.framesWithoutProgress + 1]_vars

(***************************************************************************)
(* SpecBreed: the first frames of a session in which the panel's elite     *)
(* count is changed, so that generations end with fewer parents than       *)
(* agents and with every agent a parent.                                   *)
(***************************************************************************)
BreedSteps == 3

NextBreed ==
    \/ steps < BreedSteps /\ WorldUpdate /\ UNCHANGED panel
    \/ steps < BreedSteps /\ SetEliteCount /\ UNCHANGED panel

SpecBreed == Init /\ [][NextBreed]_vars

\* a machine whose heap holds two brains only, 1 with the weights and biases
\* of parent1 and 2 with those of parent2 (crossover and mutate read and
\* write no other object), its next random number the k-th of the stream
Parents(h, parent1, parent2, k) ==
    LET Loaded(M, brain) == deserializeBrain(M, <<0>>, Parsed(brain)).M
        Drawing(M) == [M EXCEPT !.k = k]
    IN Drawing(Loaded(Loaded(Machine(EmptyHeap), BrainValue(h, parent1)),
                      BrainValue(h, parent2)))

\* the weights and biases of Brain.crossover(parent1, parent2) after
\* Brain.mutate at the rate, the random numbers taken from stream s at k
BredValue(h, s, k, parent1, parent2, rate) ==
    LET Value(M) == BrainValue(M, Len(M.brns))
        Mutated(M) == Value(Brain_mutate(M, s, Len(M.brns), rate))
    IN Mutated(Brain_crossover(Parents(h, parent1, parent2, k), s, 1, 2))

\* the ranking of the standings by descending fitness in which agents of
\* equal fitness keep their order
StableRanking(standings) ==
    CHOOSE ranking \in Permutations(1..Len(standings)) :
        \A j \in 1..(Len(standings) - 1) :
            \/ standings[ranking[j]].fitness > standings[ranking[j + 1]].fitness
            \/ /\ standings[ranking[j]].fitness = standings[ranking[j + 1]].fitness
               /\ ranking[j] < ranking[j + 1]

\* the brains of the first count agents of the ranking
Pool(vehicles, ranking, count) == {vehicles[ranking[j]].brain : j \in 1..count}

\* C18: when a generation has ended, every agent of the new generation from
\* index eliteCount on has the brain that crossover makes of two agents
\* among the first min(N, max(eliteCount, TOP_N)) of the descending-fitness
\* ranking of the generation that ended, mutated once at the mutation rate
\* the world has after the end, for some place in the stream of random
\* numbers the spawn has drawn from
C18_Bred ==
    [][call'.op = "update" /\ call'.ended =>
         \A i \in (world.eliteCount + 1)..Len(world'.vehicles) :
            \E parent1, parent2 \in
                  Pool(world.vehicles, StableRanking(call'.final),
                       Min(world.vehicleCount, Max(world.eliteCount, TOP_N))),
               k \in 0..(Len(call'.stream) - 1) :
                  BrainValue(heap', world'.vehicles[i].brain)
                    = BredValue(heap, call'.stream, k, parent1, parent2,
                                world'.mutationRate)]_vars

\* a generation of more agents than max(eliteCount, TOP_N), no two with the
\* same weights and biases, has ended: the last agent of the new generation
\* was bred, and not every agent could be its parent
C18_Witness ==
    /\ call.op = "update"
    /\ call.ended
    /\ world.vehicleCount > Max(world.eliteCount, TOP_N)
    /\ Len(world.vehicles) = world.vehicleCount
    /\ Cardinality({call.final[i].brain : i \in 1..Len(call.final)}) = world.vehicleCount

\* C19: the physics world holds no vehicle body when a spawn makes its first
\* vehicle, and never more vehicle bodies than there are agents
C19_BodiesReplaced ==
    /\ world.bodiesLeft = 0
    /\ world.bodies <= world.vehicleCount

\* a generation of several agents has been replaced by the next
C19_Witness ==
    /\ call.op = "update"
    /\ call.ended
    /\ world.generation > 1
    /\ world.vehicleCount > 1
    /\ world.bodies = world.vehicleCount

\* C20: an update leaves every agent that a collision event of its physics
\* step names not alive; and unless the generation ends in it, an agent that
\* was not alive before is not alive after, with all its telemetry as before
C20_DeadStaysDead ==
    [][call'.op = "update" =>
         /\ \A i \in call'.hits \cap (1..Len(world'.vehicles)) :
               ~world'.vehicles[i].isAlive
         /\ ~call'.ended =>
               \A i \in 1..Len(world.vehicles) :
                  ~world.vehicles[i].isAlive => world'.vehicles[i] = world.vehicles[i]]_vars

\* in a frame that did not end the generation, agents still alive hit a
\* wall while another agent, dead since an earlier frame, was skipped
C20_Witness ==
    /\ call.op = "update"
    /\ ~call.ended
    /\ \E i, j \in 1..Len(world.vehicles) :
          /\ i \in call.hits
          /\ world.vehicles[i].timeAlive = world.generationTimer
          /\ ~world.vehicles[i].isAlive
          /\ ~world.vehicles[j].isAlive
          /\ world.vehicles[j].timeAlive < world.generationTimer

\* the sum of the count highest fitness values of the standings
RECURSIVE TopSum(_, _, _)
TopSum(standings, ranking, count) ==
    IF count = 0 THEN 0
    ELSE standings[ranking[count]].fitness + TopSum(standings, ranking, count - 1)

\* the mean, rounded down as the model's averages are
Mean(sum, count) == sum \div count

\* C25: the record of a generation that has ended holds as avgTop10 the mean
\* final fitness of its min(TOP_N, N) highest ranked agents, which lies
\* between avgFitness and bestFitness
C25_AvgTop ==
    call.op = "update" /\ call.ended =>
        LET record == world.generationHistory[Len(world.generationHistory)]
            count == Min(TOP_N, Len(call.final))
        IN /\ record.avgTop10
                = Mean(TopSum(call.final, StableRanking(call.final), count), count)
           /\ record.avgFitness <= record.avgTop10
           /\ record.avgTop10 <= record.bestFitness

\* C28: after Reset Training the world is as init() leaves a new World with
\* nothing in localStorage, but for the brains' random weights: generation
\* 1, no history, no best brain, bestFitnessEver 0, both items removed,
\* generationTimer 0, N agents that have not moved, and the mutation rate
\* and the improvement tracking at their initial values
C28_ResetAll ==
    call.op = "resetTraining" =>
        /\ world.generation = 1
        /\ world.generationHistory = <<>>
        /\ world.bestFitnessEver = 0
        /\ world.bestBrainEver = 0
        /\ world.storage = [bestBrain |-> Absent, generationHistory |-> Absent]
        /\ world.generationTimer = 0
        /\ Len(world.vehicles) = world.vehicleCount
        /\ \A i \in 1..Len(world.vehicles) :
              world.vehicles[i] = Vehicle_new(world.vehicles[i].brain, i - 1)
        /\ world.mutationRate = GA_CONFIG_mutationRate
        /\ world.lastBestFitness = 0
        /\ world.lastImprovementTime = 0

(***************************************************************************)
(* SpecSession: the first frames of a session resumed from localStorage,   *)
(* with Reset Training.                                                    *)
(***************************************************************************)
NextSession ==
    \/ steps < BreedSteps /\ WorldUpdate /\ UNCHANGED panel
    \/ steps < BreedSteps /\ ResetTraining /\ UNCHANGED panel

SpecSession == InitResume /\ [][NextSession]_vars

\* the last record of a history that is not empty is of generation - 1
LastTagged(w) ==
    Len(w.generationHistory) > 0
        => w.generationHistory[Len(w.generationHistory)].gen = w.generation - 1

Record(gen, bestFitness) ==
    [gen |-> gen, bestFitness |-> bestFitness,
     avgFitness |-> bestFitness \div 2, avgTop10 |-> bestFitness \div 2]

StoredRecords == {Record(7, 500), Record(8, 300), null}

\* no item, text that is not JSON, an empty array, and the arrays of one to
\* three records
StoredHistories ==
    {Absent, Garbled, Item(<<>>)}
    \cup {Item(<<a>>) : a \in StoredRecords}
    \cup {Item(<<a, b>>) : a \in StoredRecords, b \in StoredRecords}
    \cup {Item(<<a, b, c>>) : a \in StoredRecords, b \in StoredRecords, c \in StoredRecords}

InitHistory ==
    /\ panel = Idle
    /\ \E vehicleCount \in PopulationSizes, item \in StoredHistories :
          world = [World_new(vehicleCount) EXCEPT !.storage.generationHistory = item]
    /\ heap = EmptyHeap
    /\ track = Idle
    /\ call = [op |-> "new World"]
    /\ steps = 0

\* world.init()
WorldInit ==
    /\ call.op = "new World"
    /\ \E s \in SpawnStreams :
          LET Started(R) == heap' = HeapOf(R.M) /\ world' = R.world
          IN Started(World_init(Machine(heap), s, world))
    /\ track' = Track_new(NoItem)
    /\ call' = [op |-> "init"]
    /\ steps' = steps + 1

NextHistory == WorldInit /\ UNCHANGED panel

SpecHistory == InitHistory /\ [][NextHistory]_vars

\* loading the item raises an error: its text is not JSON, or a record is null
LoadFails(item) ==
    \/ item = Garbled
    \/ /\ item # Absent
       /\ \E i \in 1..Len(item[1]) : IsNull(item[1][i])

\* C30: when loading the stored history has raised an error, init() leaves
\* the history empty, the generation 1 and bestFitnessEver 0, and has
\* spawned the N agents
C30_LoadFailure ==
    call.op = "init" /\ LoadFails(world.storage.generationHistory) =>
        /\ world.generationHistory = <<>>
        /\ world.generation = 1
        /\ world.bestFitnessEver = 0
        /\ Len(world.vehicles) = world.vehicleCount

\* C29 as stated: a generation has ended by the tick at which generationTime
\* * 60 ticks have passed since the spawn, so no tick leaves the timer at
\* that many ticks
C29_Original == world.generationTimer < world.generationTime

\* C29: every generation ends within generationTime * 60 + 1 ticks of play
\* after its spawn: no tick leaves more than generationTime * 60 ticks on
\* the timer, and the tick that finds that many ends the generation,
\* increments the generation counter and spawns the N agents anew
C29_GenerationEnds ==
    /\ world.generationTimer <= world.generationTime
    /\ [][world.generationTimer = world.generationTime /\ call'.op = "update" =>
             /\ call'.ended
             /\ world'.generation = world.generation + 1
             /\ world'.generationTimer = 0
             /\ Len(world'.vehicles) = world'.vehicleCount
             /\ \A i \in 1..Len(world'.vehicles) : world'.vehicles[i].timeAlive = 0]_vars

C29_Witness ==
    /\ call.op = "update" /\ call.ended
    /\ call.played.generationTimer = GenerationTicks + 1
    /\ ~NoneAlive(call.played) /\ ~Stagnant(call.played) /\ ~MostDead(call.played)
    /\ world.generationTimer = 0

(***************************************************************************)
(* SpecStagnation: frames and Reset Training, long enough for a second     *)
(* generation to run into the no-improvement timeout.                      *)
(***************************************************************************)
StagnationSteps == 5

NextStagnation ==
    \/ steps < StagnationSteps /\ WorldUpdate /\ UNCHANGED panel
    \/ steps < StagnationSteps /\ ResetTraining /\ UNCHANGED panel

SpecStagnation == Init /\ [][NextStagnation]_vars

\* C24: a frame in which the best fitness of an alive vehicle is greater than
\* in every earlier frame of the same generation does not find the
\* generation stagnant, whatever was reached before the spawn
C24_ImprovementPerGeneration ==
    call.op = "update" /\ call.best > call.before => ~Stagnant(call.played)

\* C22: a brain-controlled frame applies the forward impulse exactly when the
\* third output is positive, and a torque impulse of right - left always
C22_ForwardWhenPositive ==
    call.op = "steer" =>
        /\ call.controls.impulse <=> call.result[3] > 0
        /\ call.controls.turn = call.result[2] - call.result[1]

(***************************************************************************)
(* SpecPanel: the frames of a session together with the callbacks of the   *)
(* ConfigPanel, which main.ts constructs after world.init().  Its          *)
(* constructor takes `const vehicle = this.world.vehicles[0]`, and the     *)
(* sliders and callbacks bound to it keep acting on that Vehicle object.   *)
(* panel.vehicle tells what that object is: vehicles[0] of the world,      *)
(* until a spawnGeneration removes its body from the physics world and     *)
(* fills this.vehicles with new Vehicle objects.                           *)
(***************************************************************************)
PanelSteps == 3

\* positions of the 'Count' slider of the sensors (1 to 50)
SensorCounts == {1, SensorCount, SensorCount + 1}

ConfigPanel_new == [vehicle |-> "vehicles[0]"]

\* the panel after a spawnGeneration
Replaced(p) == [p EXCEPT !.vehicle = "replaced"]

InitPanel ==
    /\ panel = ConfigPanel_new
    /\ \E vehicleCount \in PopulationSizes, s \in SpawnStreams :
          LET Started(R) == heap = HeapOf(R.M) /\ world = R.world
          IN Started(World_init(Machine(EmptyHeap), s, World_new(vehicleCount)))
    /\ track = Track_new(NoItem)
    /\ call = [op |-> "init", ended |-> FALSE, final |-> <<>>]
    /\ steps = 0

\* the walls a vehicle may run into while the track is edited: nobody, or
\* the first vehicle
EditHits == { {}, {1} }

\* World.update(input) in edit mode: track.update, then the physics step and
\* the collision events as in play mode.  An exception of track.update
\* leaves update before the step
WorldUpdateEditing ==
    /\ world.simulationRunning
    /\ track.isEditing
    /\ \E input \in EditorInputs, hits \in EditHits :
          /\ track' = Track_update(track, input)
          /\ world' = IF DragThrows(Selected(track, input), input) THEN world
                      ELSE [world EXCEPT !.vehicles = Collided(@, hits)]
          /\ call' = [op |-> "update (editing)", input |-> input, hits |-> hits]
    /\ steps' = steps + 1
    /\ UNCHANGED heap

\* the 'Count' slider: lil-gui assigns vehicle.sensorCount
SetSensorCount ==
    /\ \E n \in SensorCounts :
          /\ world' = IF panel.vehicle = "vehicles[0]"
                      THEN [world EXCEPT !.vehicles[1].sensorCount = n]
                      ELSE world
          /\ call' = [op |-> "sensorCount", value |-> n]
    /\ steps' = steps + 1
    /\ UNCHANGED <<heap, track>>

\* the damping sliders: vehicle.body.setLinearDamping(v) or
\* vehicle.body.setAngularDamping(v); registered tells whether the body is
\* in the physics world when the call is made
SetDamping ==
    /\ \E method \in {"setLinearDamping", "setAngularDamping"} :
          call' = [op |-> method, registered |-> panel.vehicle = "vehicles[0]"]
    /\ steps' = steps + 1
    /\ UNCHANGED <<heap, world, track>>

NextPanel ==
    \/ steps < PanelSteps /\ WorldUpdate /\ panel' = IF call'.ended THEN Replaced(panel) ELSE panel
    \/ steps < PanelSteps /\ WorldUpdateEditing /\ UNCHANGED panel
    \/ steps < PanelSteps /\ ResetTraining /\ panel' = Replaced(panel)
    \/ steps < PanelSteps /\ SetEditMode /\ UNCHANGED panel
    \/ steps < PanelSteps /\ SetSensorCount /\ UNCHANGED panel
    \/ steps < PanelSteps /\ SetDamping /\ UNCHANGED panel

SpecPanel == InitPanel /\ [][NextPanel]_vars

\* the length of the inputs array of the first level of brain b
InputWidth(h, b) == Len(h.arrs[h.lvls[h.brns[b][1]].inputs])

\* C21: every frame of play mode feeds the brain of every alive vehicle an
\* input vector as long as the first level's inputs (INPUT_COUNT), also
\* after the sensor count slider has been moved
C21_InputLength ==
    [][call'.op = "update" =>
          \A i \in 1..Len(world.vehicles) : \A pose \in 1..3 :
              world.vehicles[i].isAlive =>
                  /\ Len(getBrainInputs(world.vehicles[i], PoseTable(Len(track.path))[pose]))
                         = InputWidth(heap, world.vehicles[i].brain)
                  /\ InputWidth(heap, world.vehicles[i].brain) = INPUT_COUNT]_vars

\* C26: a frame in edit mode leaves the generation, its timer, the history,
\* the mutation rate and every vehicle (alive flag and telemetry) as they were
C26_EditFrameInert ==
    [][call'.op = "update (editing)" =>
          /\ world'.generation = world.generation
          /\ world'.generationTimer = world.generationTimer
          /\ world'.generationHistory = world.generationHistory
          /\ world'.mutationRate = world.mutationRate
          /\ world'.vehicles = world.vehicles]_vars

\* C27: no damping call of the panel is made on a body that spawnGeneration
\* has removed from the physics world
C27_BodyRegistered ==
    call.op \in {"setLinearDamping", "setAngularDamping"} => call.registered

====
